---------------------------- MODULE Spec2Model ----------------------------
(***************************************************************************)
(* Change-tracker POC: the SQLite-backed repository (core/repository.py)   *)
(* and the Streamlit script that calls it (app.py), as a state machine.    *)
(*                                                                         *)
(* The committed database is four tables, each a sequence of rows in       *)
(* rowid (insertion) order.  Every repository call opens a connection of   *)
(* its own; a SELECT reads the committed tables, the first INSERT / UPDATE *)
(* / DELETE of a call opens the connection's transaction (Python's sqlite3 *)
(* begins one implicitly before a data-modifying statement) and takes the  *)
(* database's single write lock, and conn.commit() publishes the           *)
(* transaction's tables.  A call that raises before conn.commit() never    *)
(* commits: its connection is dropped and the transaction rolled back.     *)
(***************************************************************************)
EXTENDS Integers, Sequences, FiniteSets, TLC

(***************************************************************************)
(* Bounds of the model.                                                    *)
(***************************************************************************)
\* timestamps the clock hands out before direct calls of the repository stop
MaxClock == 3
\* timestamps the clock hands out before the application stops starting writes
MaxAppClock == 4

\* the Streamlit sessions / repository client threads that run side by side
Sessions == {1, 2}

(***************************************************************************)
(* Values.                                                                 *)
(***************************************************************************)
\* SQL NULL / Python None in an id column (ids are 1, 2, ...)
NULL == 0
\* Python None where the value is otherwise a string
None == "None"
\* Python None where the value is otherwise a row object
NoneRow == [id |-> NULL]
\* roles.py
USER == "user"
ADMIN == "admin"
VIEWER == "viewer"

is_user(user) == user.role = USER
is_admin(user) == user.role = ADMIN
is_viewer(user) == user.role = VIEWER

\* core/auth.py
get_mock_users ==
    << [id |-> "user-1", display_name |-> "Akshat (User)",
        email |-> "akshat.user@example.com", role |-> "user"],
       [id |-> "user-2", display_name |-> "OPS Admin",
        email |-> "admin@example.com", role |-> "admin"],
       [id |-> "user-3", display_name |-> "OPS Viewer (Read-only)",
        email |-> "viewer@example.com", role |-> "viewer"] >>

\* the User built inside ensure_demo_data
admin_like ==
    [id |-> "admin-seed", display_name |-> "Seeded Admin Record Owner",
     email |-> "seeded-admin@example.com", role |-> "admin"]

MockUsers == { get_mock_users[i] : i \in 1..Len(get_mock_users) }
AllUsers == MockUsers \cup {admin_like}

\* the role a stored user id belongs to
RoleOfUserId(uid) == (CHOOSE u \in AllUsers : u.id = uid).role

(***************************************************************************)
(* JSON text.  json.dumps of a list of strings is modelled as the token    *)
(* sequence "[", item, ",", item, "]"; of None as the token "null"; of a   *)
(* content dict as a record whose list leaves are encoded.  json.loads     *)
(* parses the tokens back.                                                 *)
(***************************************************************************)
RECURSIVE json_items(_)
json_items(list) ==
    IF list = <<>> THEN <<>>
    ELSE IF Len(list) = 1 THEN <<list[1]>>
    ELSE <<list[1], ",">> \o json_items(Tail(list))

\* Python None where the value is otherwise a list
NoneValue == <<None>>

json_dumps_value(v) ==
    IF v = NoneValue THEN <<"null">>
    ELSE <<"[">> \o json_items(v) \o <<"]">>

RECURSIVE json_parse_items(_)
json_parse_items(toks) ==
    IF toks = <<>> THEN <<>>
    ELSE IF Head(toks) = "," THEN json_parse_items(Tail(toks))
    ELSE <<Head(toks)>> \o json_parse_items(Tail(toks))

json_loads_value(text) ==
    IF text = <<"null">> THEN NoneValue
    ELSE json_parse_items(SubSeq(text, 2, Len(text) - 1))

json_dumps(content) ==
    [business_problem |-> content.business_problem,
     description |-> content.description,
     ai_metadata |->
        [framework_tags |-> json_dumps_value(content.ai_metadata.framework_tags),
         capability_groups |-> json_dumps_value(content.ai_metadata.capability_groups)]]

json_loads(text) ==
    [business_problem |-> text.business_problem,
     description |-> text.description,
     ai_metadata |->
        [framework_tags |-> json_loads_value(text.ai_metadata.framework_tags),
         capability_groups |-> json_loads_value(text.ai_metadata.capability_groups)]]

(***************************************************************************)
(* Time.  datetime.now(TORONTO_TZ).isoformat(): the instant read from the  *)
(* clock, with the zone whose offset the string carries.                   *)
(***************************************************************************)
TORONTO_TZ == "America/Toronto"

\* hours from Toronto's wall clock to UTC's (standard time, the offset
\* "-05:00" of the strings; 4 under daylight saving time)
TORONTO_UTC_OFFSET == 5

now_toronto_iso(instant) == [t |-> instant, tz |-> TORONTO_TZ]

(***************************************************************************)
(* A Python dict: a function on the keys it holds.                         *)
(***************************************************************************)
EmptyDict == <<>>
\* key in d
Has(d, key) == key \in DOMAIN d
\* d[key] = value
Put(d, key, value) == (key :> value) @@ d

(***************************************************************************)
(* State.                                                                  *)
(***************************************************************************)
VARIABLES
    records,          \* committed table records
    record_versions,  \* committed table record_versions
    comments,         \* committed table comments
    override_events,  \* committed table override_events
    lock,             \* the session holding the database write lock, or NULL
    txn,              \* per session: its connection's uncommitted tables, or NoTxn
    pc,               \* per session: the statement it is about to run
    frame,            \* per session: arguments and locals of its repository call
    result,           \* per session: how its last repository call ended
    clock,            \* the wall clock
    session_state,    \* per session: Streamlit's st.session_state
    script            \* per session: locals of the running app.py script

db == <<records, record_versions, comments, override_events>>
vars == <<records, record_versions, comments, override_events,
          lock, txn, pc, frame, result, clock, session_state, script>>

NoTxn == [open |-> FALSE]
NoFrame == [fn |-> "none"]
NoResult == [outcome |-> "none"]

\* the tables as a connection sees them: its own transaction, else committed
Committed ==
    [open |-> TRUE, records |-> records, record_versions |-> record_versions,
     comments |-> comments, override_events |-> override_events]

View(s) == IF txn[s].open THEN txn[s] ELSE Committed

Range(seq) == { seq[i] : i \in 1..Len(seq) }

\* ORDER BY key ASC of a row sequence, key a function of the row; rows of
\* equal key keep rowid order
RECURSIVE InsertBy(_, _, _)
InsertBy(row, sorted, key) ==
    IF sorted = <<>> THEN <<row>>
    ELSE IF key[sorted[Len(sorted)]] <= key[row] THEN Append(sorted, row)
    ELSE Append(InsertBy(row, SubSeq(sorted, 1, Len(sorted) - 1), key),
                sorted[Len(sorted)])

RECURSIVE OrderBy(_, _)
OrderBy(rows, key) ==
    IF rows = <<>> THEN <<>>
    ELSE InsertBy(rows[Len(rows)], OrderBy(SubSeq(rows, 1, Len(rows) - 1), key), key)

(***************************************************************************)
(* Reads: each SELECT sees the committed tables.                           *)
(***************************************************************************)
_row_to_record(row) == row

_row_to_record_version(row) == [row EXCEPT !.content = json_loads(row.content)]

\* a variant whose viewer branch does not look at the status
list_records_for_user_unfiltered(user) ==
    LET all == records
        mine == SelectSeq(records, LAMBDA r : r.created_by = user.id)
        rows == IF is_admin(user) THEN all
                ELSE IF is_user(user) THEN mine
                ELSE all
        sorted == OrderBy(rows, [r \in Range(rows) |-> 0 - r.created_at.t])
    IN  [i \in 1..Len(sorted) |-> _row_to_record(sorted[i])]

\* a variant whose plain-user branch has no WHERE created_by = ?
list_records_for_user_any_owner(user) ==
    LET all == records
        nondraft == SelectSeq(records, LAMBDA r : r.status # "draft")
        rows == IF is_admin(user) THEN all
                ELSE IF is_user(user) THEN all
                ELSE nondraft
        sorted == OrderBy(rows, [r \in Range(rows) |-> 0 - r.created_at.t])
    IN  [i \in 1..Len(sorted) |-> _row_to_record(sorted[i])]

list_records_for_user(user) ==
    LET all == records
        mine == SelectSeq(records, LAMBDA r : r.created_by = user.id)
        nondraft == SelectSeq(records, LAMBDA r : r.status # "draft")
        rows == IF is_admin(user) THEN all
                ELSE IF is_user(user) THEN mine
                ELSE nondraft
        \* ORDER BY created_at DESC
        sorted == OrderBy(rows, [r \in Range(rows) |-> 0 - r.created_at.t])
    IN  [i \in 1..Len(sorted) |-> _row_to_record(sorted[i])]

count_records == Len(records)

get_record_by_id(record_id) ==
    LET rows == SelectSeq(records, LAMBDA r : r.id = record_id)
    IN  IF rows = <<>> THEN NoneRow ELSE _row_to_record(rows[1])

get_current_version(record_id) ==
    LET row == SelectSeq(records, LAMBDA r : r.id = record_id)
    IN  IF row = <<>> \/ row[1].current_version_id = NULL THEN NoneRow
        ELSE LET vrow == SelectSeq(record_versions,
                                   LAMBDA v : v.id = row[1].current_version_id)
             IN  IF vrow = <<>> THEN NoneRow ELSE _row_to_record_version(vrow[1])

list_versions_for_record(record_id) ==
    LET rows == SelectSeq(record_versions, LAMBDA v : v.record_id = record_id)
        \* ORDER BY version_number ASC
        sorted == OrderBy(rows, [v \in Range(rows) |-> v.version_number])
    IN  [i \in 1..Len(sorted) |-> _row_to_record_version(sorted[i])]

(***************************************************************************)
(* app.py: the diff engine.  A Python dict is a function on its keys; a    *)
(* document that is None is NoneDict.                                      *)
(***************************************************************************)
NoneDict == [None |-> None]

\* d or {}
OrEmptyDict(d) == IF DOMAIN d = {} \/ DOMAIN d = {"None"} THEN EmptyDict ELSE d
\* d.get(key, [])
GetList(d, key) == IF key \in DOMAIN d THEN d[key] ELSE <<>>
\* a variant without the trailing `or []`: a None stays a None
OrEmptyList_keep_none(x) == x

\* x or []
OrEmptyList(x) == IF x = NoneValue \/ x = <<>> THEN <<>> ELSE x

\* a variant that compares the tag lists as sets
diff_ai_metadata_unordered(old_meta, new_meta) ==
    LET old == OrEmptyDict(old_meta)
        new == OrEmptyDict(new_meta)
        old_framework == OrEmptyList(GetList(old, "framework_tags"))
        new_framework == OrEmptyList(GetList(new, "framework_tags"))
        old_caps == OrEmptyList(GetList(old, "capability_groups"))
        new_caps == OrEmptyList(GetList(new, "capability_groups"))
    IN  (IF Range(old_framework) # Range(new_framework)
         THEN << <<"ai_metadata.framework_tags", old_framework, new_framework>> >>
         ELSE <<>>)
        \o
        (IF Range(old_caps) # Range(new_caps)
         THEN << <<"ai_metadata.capability_groups", old_caps, new_caps>> >>
         ELSE <<>>)

\* a variant that stops at the first field that differs (elif)
diff_ai_metadata_first_only(old_meta, new_meta) ==
    LET old == OrEmptyDict(old_meta)
        new == OrEmptyDict(new_meta)
        old_framework == OrEmptyList(GetList(old, "framework_tags"))
        new_framework == OrEmptyList(GetList(new, "framework_tags"))
        old_caps == OrEmptyList(GetList(old, "capability_groups"))
        new_caps == OrEmptyList(GetList(new, "capability_groups"))
    IN  IF old_framework # new_framework
        THEN << <<"ai_metadata.framework_tags", old_framework, new_framework>> >>
        ELSE IF old_caps # new_caps
        THEN << <<"ai_metadata.capability_groups", old_caps, new_caps>> >>
        ELSE <<>>

\* a variant that takes two lists of one length with the same members for
\* equal
diff_ai_metadata_same_members(old_meta, new_meta) ==
    LET old == OrEmptyDict(old_meta)
        new == OrEmptyDict(new_meta)
        old_framework == OrEmptyList(GetList(old, "framework_tags"))
        new_framework == OrEmptyList(GetList(new, "framework_tags"))
        old_caps == OrEmptyList(GetList(old, "capability_groups"))
        new_caps == OrEmptyList(GetList(new, "capability_groups"))
        differ(a, b) == Len(a) # Len(b) \/ Range(a) # Range(b)
    IN  (IF differ(old_framework, new_framework)
         THEN << <<"ai_metadata.framework_tags", old_framework, new_framework>> >>
         ELSE <<>>)
        \o
        (IF differ(old_caps, new_caps)
         THEN << <<"ai_metadata.capability_groups", old_caps, new_caps>> >>
         ELSE <<>>)

diff_ai_metadata(old_meta, new_meta) ==
    LET old == OrEmptyDict(old_meta)
        new == OrEmptyDict(new_meta)
        old_framework == OrEmptyList(GetList(old, "framework_tags"))
        new_framework == OrEmptyList(GetList(new, "framework_tags"))
        old_caps == OrEmptyList(GetList(old, "capability_groups"))
        new_caps == OrEmptyList(GetList(new, "capability_groups"))
    IN  (IF old_framework # new_framework
         THEN << <<"ai_metadata.framework_tags", old_framework, new_framework>> >>
         ELSE <<>>)
        \o
        (IF old_caps # new_caps
         THEN << <<"ai_metadata.capability_groups", old_caps, new_caps>> >>
         ELSE <<>>)

(***************************************************************************)
(* Writes.  A statement that modifies data runs on the connection's own    *)
(* tables; the first one begins the transaction and needs the write lock.  *)
(***************************************************************************)
\* the connection can run a data-modifying statement: it holds the write
\* lock already, or the lock is free and it takes it
CanWrite(s) == lock = NULL \/ lock = s

\* a variant in autocommit mode: every statement is published at once
Execute_autocommit(s, tables) ==
    /\ CanWrite(s)
    /\ lock' = s
    /\ txn' = [txn EXCEPT ![s] = tables]
    /\ records' = tables.records
    /\ record_versions' = tables.record_versions
    /\ comments' = tables.comments
    /\ override_events' = tables.override_events

\* cur.execute of an INSERT / UPDATE / DELETE whose effect on the
\* connection's tables is `tables`
Execute(s, tables) ==
    /\ CanWrite(s)
    /\ lock' = s
    /\ txn' = [txn EXCEPT ![s] = tables]
    /\ UNCHANGED db

\* conn.commit(): the transaction's tables become the committed ones
Commit(s) ==
    /\ records' = View(s).records
    /\ record_versions' = View(s).record_versions
    /\ comments' = View(s).comments
    /\ override_events' = View(s).override_events
    /\ lock' = IF lock = s THEN NULL ELSE lock
    /\ txn' = [txn EXCEPT ![s] = NoTxn]

NoScript == [flow |-> "none"]

\* a variant in which the dropped connection commits what it has done
Raise_commit(s, error) ==
    /\ pc' = [pc EXCEPT ![s] = "idle"]
    /\ frame' = [frame EXCEPT ![s] = NoFrame]
    /\ result' = [result EXCEPT ![s] =
            IF script[s] = NoScript
            THEN [outcome |-> "raised", fn |-> frame[s].fn, value |-> error,
                  at |-> pc[s]]
            ELSE NoResult]
    /\ script' = [script EXCEPT ![s] = NoScript]
    /\ Commit(s)
    /\ UNCHANGED <<clock, session_state>>

\* an exception leaves the call, and the script run that made it, before
\* conn.commit(): the connection is dropped, its transaction rolled back
Raise(s, error) ==
    /\ pc' = [pc EXCEPT ![s] = "idle"]
    /\ frame' = [frame EXCEPT ![s] = NoFrame]
    /\ result' = [result EXCEPT ![s] =
            \* a direct caller catches the exception; a script run ends on it
            IF script[s] = NoScript
            THEN [outcome |-> "raised", fn |-> frame[s].fn, value |-> error,
                  at |-> pc[s]]
            ELSE NoResult]
    /\ script' = [script EXCEPT ![s] = NoScript]
    /\ txn' = [txn EXCEPT ![s] = NoTxn]
    /\ lock' = IF lock = s THEN NULL ELSE lock
    /\ UNCHANGED <<db, clock, session_state>>

(***************************************************************************)
(* The locals a repository call starts with.                               *)
(***************************************************************************)
\* create_record_with_initial_version, lines 178-183: now and the two
\* uuids (a uuid is a fresh value; it is named by the rowid of its row)
Frame_create_record_with_initial_version(title, record_type, content, user, status) ==
    [fn |-> "create_record_with_initial_version",
     title |-> title, record_type |-> record_type, content |-> content,
     user |-> user, status |-> status, now |-> now_toronto_iso(clock),
     record_id |-> NULL, version_id |-> NULL]

Frame_create_new_version(record_id, new_title, content, user, version_type, new_status) ==
    [fn |-> "create_new_version",
     record_id |-> record_id, new_title |-> new_title, content |-> content,
     user |-> user, version_type |-> version_type, new_status |-> new_status,
     parent_version_id |-> NULL, existing_status |-> None,
     next_version_number |-> 0, now |-> None, version_id |-> NULL]

\* datetime.utcnow().isoformat(): the same instant, written in UTC with no
\* offset in the string
utcnow_iso(instant) == [t |-> instant, tz |-> "naive UTC"]

\* add_comment, lines 491-495; the uuid is named by the clock tick of the
\* call, which no other call gets
Frame_add_comment(record_id, version_id, text, user) ==
    [fn |-> "add_comment", record_id |-> record_id, version_id |-> version_id,
     text |-> text, user |-> user, now |-> utcnow_iso(clock),
     comment_id |-> clock + 1]

Frame_update_comment(comment_id, new_text) ==
    [fn |-> "update_comment", comment_id |-> comment_id, new_text |-> new_text,
     now |-> now_toronto_iso(clock)]

Frame_delete_comment(comment_id) ==
    [fn |-> "delete_comment", comment_id |-> comment_id]

\* a variant that passes the two ids in the other order
Frame_log_override_events_swapped(record_id, version_id, overrides, user) ==
    [fn |-> "log_override_events", record_id |-> version_id,
     version_id |-> record_id, overrides |-> overrides, user |-> user,
     now |-> now_toronto_iso(clock), i |-> 1]

\* log_override_events, lines 601-603; i is the loop's position
Frame_log_override_events(record_id, version_id, overrides, user) ==
    [fn |-> "log_override_events", record_id |-> record_id,
     version_id |-> version_id, overrides |-> overrides, user |-> user,
     now |-> now_toronto_iso(clock), i |-> 1]

(***************************************************************************)
(* ensure_demo_data's two documents.                                       *)
(***************************************************************************)
demo_content_1 ==
    [business_problem |-> "Detect suspicious benefit claims using AI.",
     description |-> "Use classification models to flag high-risk claims for review.",
     ai_metadata |-> [framework_tags |-> <<"Risk & Governance">>,
                      capability_groups |-> <<"Fraud Detection">>]]

demo_content_2 ==
    [business_problem |-> "Automate document summarization for policy briefs.",
     description |-> "Use NLP to create short summaries for long policy documents.",
     ai_metadata |-> [framework_tags |-> <<"Knowledge Management">>,
                      capability_groups |-> <<"NLP">>]]

(***************************************************************************)
(* What the caller does once a repository call has returned `value`, up to *)
(* its next repository call.  A direct call has nothing after it.          *)
(***************************************************************************)
Finish(s, value) ==
    /\ pc' = [pc EXCEPT ![s] = "idle"]
    /\ frame' = [frame EXCEPT ![s] = NoFrame]
    /\ result' = [result EXCEPT ![s] =
            \* a direct caller holds the value; a script run ends and drops it
            IF script[s] = NoScript
            THEN [outcome |-> "returned", fn |-> frame[s].fn, value |-> value]
            ELSE NoResult]
    /\ script' = [script EXCEPT ![s] = NoScript]
    /\ UNCHANGED clock

AfterReturn(s, value) ==
    LET flow == script[s].flow IN
    CASE flow = "seed1" ->
            \* ensure_demo_data, lines 307-320: the second demo record
            /\ frame' = [frame EXCEPT ![s] =
                    Frame_create_record_with_initial_version(
                        "Policy Document Summarization", "ai_use_case",
                        demo_content_2, admin_like, "submitted")]
            /\ clock' = clock + 1
            /\ pc' = [pc EXCEPT ![s] = "crv_insert_record"]
            /\ script' = [script EXCEPT ![s].flow = "seed2"]
            /\ UNCHANGED <<result, session_state>>
      [] flow = "seed2" ->
            \* main, line 684
            /\ Finish(s, value)
            /\ session_state' = [session_state EXCEPT
                    ![s] = Put(@, "demo_data_initialized", TRUE)]
      [] flow = "save" /\ script[s].version_type = "override"
                       /\ script[s].overrides # <<>> ->
            \* show_editor, lines 336-342; log_override_events returns at
            \* once for an empty list (lines 598-599)
            /\ frame' = [frame EXCEPT ![s] =
                    Frame_log_override_events(script[s].record_id, value.id,
                                              script[s].overrides, script[s].user)]
            /\ clock' = clock + 1
            /\ pc' = [pc EXCEPT ![s] = "log_insert"]
            /\ script' = [script EXCEPT ![s].flow = "log"]
            /\ UNCHANGED <<result, session_state>>
      [] flow = "save_comment" ->
            \* show_editor, lines 411-414
            /\ Finish(s, value)
            /\ session_state' = [session_state EXCEPT
                    ![s] = Put(@, "editing_comment_id", NULL)]
      [] OTHER ->
            /\ Finish(s, value)
            /\ UNCHANGED session_state

(***************************************************************************)
(* create_record_with_initial_version                                      *)
(***************************************************************************)
\* a variant that inserts the record with no current version yet
crv_insert_record_without_pointer(s) ==
    /\ pc[s] = "crv_insert_record"
    /\ LET f == frame[s]
           record_id == Len(View(s).records) + 1
           version_id == Len(View(s).record_versions) + 1
           row == [id |-> record_id, title |-> f.title, record_type |-> f.record_type,
                   current_version_id |-> NULL, created_by |-> f.user.id,
                   created_at |-> f.now, status |-> f.status]
       IN  /\ Execute(s, [View(s) EXCEPT !.records = Append(@, row)])
           /\ frame' = [frame EXCEPT ![s].record_id = record_id,
                                     ![s].version_id = version_id]
    /\ pc' = [pc EXCEPT ![s] = "crv_insert_version"]
    /\ UNCHANGED <<result, clock, session_state, script>>

\* INSERT INTO records
crv_insert_record(s) ==
    /\ pc[s] = "crv_insert_record"
    /\ LET f == frame[s]
           record_id == Len(View(s).records) + 1
           version_id == Len(View(s).record_versions) + 1
           row == [id |-> record_id, title |-> f.title, record_type |-> f.record_type,
                   current_version_id |-> version_id, created_by |-> f.user.id,
                   created_at |-> f.now, status |-> f.status]
       IN  /\ Execute(s, [View(s) EXCEPT !.records = Append(@, row)])
           /\ frame' = [frame EXCEPT ![s].record_id = record_id,
                                     ![s].version_id = version_id]
    /\ pc' = [pc EXCEPT ![s] = "crv_insert_version"]
    /\ UNCHANGED <<result, clock, session_state, script>>

\* a variant that writes the requested status as the version's type
crv_insert_version_status_type(s) ==
    /\ pc[s] = "crv_insert_version"
    /\ LET f == frame[s]
           row == [id |-> f.version_id, record_id |-> f.record_id,
                   version_number |-> 1, content |-> json_dumps(f.content),
                   created_by |-> f.user.id, created_by_name |-> f.user.display_name,
                   created_at |-> f.now, version_type |-> f.status,
                   parent_version_id |-> NULL]
       IN  Execute(s, [View(s) EXCEPT !.record_versions = Append(@, row)])
    /\ pc' = [pc EXCEPT ![s] = "crv_commit"]
    /\ UNCHANGED <<frame, result, clock, session_state, script>>

\* INSERT INTO record_versions
crv_insert_version(s) ==
    /\ pc[s] = "crv_insert_version"
    /\ LET f == frame[s]
           row == [id |-> f.version_id, record_id |-> f.record_id,
                   version_number |-> 1, content |-> json_dumps(f.content),
                   created_by |-> f.user.id, created_by_name |-> f.user.display_name,
                   created_at |-> f.now, version_type |-> "draft",
                   parent_version_id |-> NULL]
       IN  Execute(s, [View(s) EXCEPT !.record_versions = Append(@, row)])
    /\ pc' = [pc EXCEPT ![s] = "crv_commit"]
    /\ UNCHANGED <<frame, result, clock, session_state, script>>

\* conn.commit(); return Record(...)
crv_commit(s) ==
    /\ pc[s] = "crv_commit"
    /\ Commit(s)
    /\ LET f == frame[s] IN
       AfterReturn(s, [id |-> f.record_id, title |-> f.title,
                       record_type |-> f.record_type,
                       current_version_id |-> f.version_id,
                       created_by |-> f.user.id, created_at |-> f.now,
                       status |-> f.status])

(***************************************************************************)
(* create_new_version                                                      *)
(***************************************************************************)
\* a variant that goes on without the row when the record is missing
cnv_select_record_lenient(s) ==
    /\ pc[s] = "cnv_select_record"
    /\ LET rec_row == SelectSeq(records, LAMBDA r : r.id = frame[s].record_id)
       IN  /\ frame' = [frame EXCEPT
                    ![s].parent_version_id =
                        IF rec_row = <<>> THEN NULL ELSE rec_row[1].current_version_id,
                    ![s].existing_status =
                        IF rec_row = <<>> THEN None ELSE rec_row[1].status]
           /\ pc' = [pc EXCEPT ![s] = "cnv_select_max"]
           /\ UNCHANGED <<db, lock, txn, result, clock, session_state, script>>

\* a variant that takes the record's first version as the parent
cnv_select_record_first_parent(s) ==
    /\ pc[s] = "cnv_select_record"
    /\ LET rec_row == SelectSeq(records, LAMBDA r : r.id = frame[s].record_id)
           first == SelectSeq(record_versions,
                              LAMBDA v : v.record_id = frame[s].record_id
                                         /\ v.version_number = 1)
       IN  IF rec_row = <<>>
           THEN Raise(s, "ValueError")
           ELSE /\ pc' = [pc EXCEPT ![s] = "cnv_select_max"]
                /\ frame' = [frame EXCEPT
                        ![s].parent_version_id = first[1].id,
                        ![s].existing_status = rec_row[1].status]
                /\ UNCHANGED <<db, lock, txn, result, clock, session_state, script>>

\* SELECT current_version_id, status FROM records WHERE id = ?
cnv_select_record(s) ==
    /\ pc[s] = "cnv_select_record"
    /\ LET rec_row == SelectSeq(records, LAMBDA r : r.id = frame[s].record_id)
       IN  IF rec_row = <<>>
           THEN Raise(s, "ValueError")
           ELSE /\ pc' = [pc EXCEPT ![s] = "cnv_select_max"]
                /\ frame' = [frame EXCEPT
                        ![s].parent_version_id = rec_row[1].current_version_id,
                        ![s].existing_status = rec_row[1].status]
                /\ UNCHANGED <<db, lock, txn, result, clock, session_state, script>>

\* a variant that takes the smallest number instead: COALESCE(MIN(...), 0)
max_v_min(record_id) ==
    LET nums == { v.version_number :
                    v \in { w \in Range(record_versions) : w.record_id = record_id } }
    IN  IF nums = {} THEN 0 ELSE CHOOSE n \in nums : \A m \in nums : n <= m

\* COALESCE(MAX(version_number), 0) of the record's committed versions
max_v(record_id) ==
    LET nums == { v.version_number :
                    v \in { w \in Range(record_versions) : w.record_id = record_id } }
    IN  IF nums = {} THEN 0 ELSE CHOOSE n \in nums : \A m \in nums : m <= n

\* SELECT COALESCE(MAX(version_number), 0); then now and the uuid
cnv_select_max(s) ==
    /\ pc[s] = "cnv_select_max"
    /\ pc' = [pc EXCEPT ![s] = "cnv_insert_version"]
    /\ frame' = [frame EXCEPT
            ![s].next_version_number = max_v(frame[s].record_id) + 1,
            ![s].now = now_toronto_iso(clock)]
    /\ clock' = clock + 1
    /\ UNCHANGED <<db, lock, txn, result, session_state, script>>

\* a variant that writes the new version with no parent
cnv_insert_version_orphan(s) ==
    /\ pc[s] = "cnv_insert_version"
    /\ LET f == frame[s]
           version_id == Len(View(s).record_versions) + 1
           row == [id |-> version_id, record_id |-> f.record_id,
                   version_number |-> f.next_version_number,
                   content |-> json_dumps(f.content),
                   created_by |-> f.user.id, created_by_name |-> f.user.display_name,
                   created_at |-> f.now, version_type |-> f.version_type,
                   parent_version_id |-> NULL]
       IN  /\ Execute(s, [View(s) EXCEPT !.record_versions = Append(@, row)])
           /\ frame' = [frame EXCEPT ![s].version_id = version_id]
    /\ pc' = [pc EXCEPT ![s] = "cnv_update_record"]
    /\ UNCHANGED <<result, clock, session_state, script>>

\* a variant that writes a ledger row itself when the type is 'override'
cnv_insert_version_logging(s) ==
    /\ pc[s] = "cnv_insert_version"
    /\ LET f == frame[s]
           version_id == Len(View(s).record_versions) + 1
           row == [id |-> version_id, record_id |-> f.record_id,
                   version_number |-> f.next_version_number,
                   content |-> json_dumps(f.content),
                   created_by |-> f.user.id, created_by_name |-> f.user.display_name,
                   created_at |-> f.now, version_type |-> f.version_type,
                   parent_version_id |-> f.parent_version_id]
           event == [id |-> Len(View(s).override_events) + 1,
                     record_id |-> f.record_id, version_id |-> version_id,
                     field_path |-> "ai_metadata.framework_tags",
                     original_value |-> json_dumps_value(<<>>),
                     new_value |-> json_dumps_value(<<>>),
                     overridden_by |-> f.user.id,
                     overridden_by_name |-> f.user.display_name,
                     overridden_at |-> f.now]
       IN  /\ Execute(s, [View(s) EXCEPT
                            !.record_versions = Append(@, row),
                            !.override_events =
                                IF f.version_type = "override"
                                THEN Append(@, event) ELSE @])
           /\ frame' = [frame EXCEPT ![s].version_id = version_id]
    /\ pc' = [pc EXCEPT ![s] = "cnv_update_record"]
    /\ UNCHANGED <<result, clock, session_state, script>>

\* INSERT INTO record_versions
cnv_insert_version(s) ==
    /\ pc[s] = "cnv_insert_version"
    /\ LET f == frame[s]
           version_id == Len(View(s).record_versions) + 1
           row == [id |-> version_id, record_id |-> f.record_id,
                   version_number |-> f.next_version_number,
                   content |-> json_dumps(f.content),
                   created_by |-> f.user.id, created_by_name |-> f.user.display_name,
                   created_at |-> f.now, version_type |-> f.version_type,
                   parent_version_id |-> f.parent_version_id]
       IN  /\ Execute(s, [View(s) EXCEPT !.record_versions = Append(@, row)])
           /\ frame' = [frame EXCEPT ![s].version_id = version_id]
    /\ pc' = [pc EXCEPT ![s] = "cnv_update_record"]
    /\ UNCHANGED <<result, clock, session_state, script>>

\* a variant that also marks the parent version as superseded
cnv_update_record_superseding(s) ==
    /\ pc[s] = "cnv_update_record"
    /\ LET f == frame[s]
           final_status == IF f.new_status # None THEN f.new_status
                           ELSE f.existing_status
           updated == [i \in 1..Len(View(s).records) |->
                         IF View(s).records[i].id = f.record_id
                         THEN [View(s).records[i] EXCEPT
                                 !.current_version_id = f.version_id,
                                 !.status = final_status,
                                 !.title = f.new_title]
                         ELSE View(s).records[i]]
           marked == [i \in 1..Len(View(s).record_versions) |->
                         IF View(s).record_versions[i].id = f.parent_version_id
                         THEN [View(s).record_versions[i] EXCEPT
                                 !.version_type = "superseded"]
                         ELSE View(s).record_versions[i]]
       IN  Execute(s, [View(s) EXCEPT !.records = updated,
                                      !.record_versions = marked])
    /\ pc' = [pc EXCEPT ![s] = "cnv_commit"]
    /\ UNCHANGED <<frame, result, clock, session_state, script>>

\* a variant that moves the pointer and the status but keeps the old title
cnv_update_record_keep_title(s) ==
    /\ pc[s] = "cnv_update_record"
    /\ LET f == frame[s]
           final_status == IF f.new_status # None THEN f.new_status
                           ELSE f.existing_status
           updated == [i \in 1..Len(View(s).records) |->
                         IF View(s).records[i].id = f.record_id
                         THEN [View(s).records[i] EXCEPT
                                 !.current_version_id = f.version_id,
                                 !.status = final_status]
                         ELSE View(s).records[i]]
       IN  Execute(s, [View(s) EXCEPT !.records = updated])
    /\ pc' = [pc EXCEPT ![s] = "cnv_commit"]
    /\ UNCHANGED <<frame, result, clock, session_state, script>>

\* a variant that moves the pointer only if the record still points at the
\* version the call read: the first writer wins
cnv_update_record_first_wins(s) ==
    /\ pc[s] = "cnv_update_record"
    /\ LET f == frame[s]
           final_status == IF f.new_status # None THEN f.new_status
                           ELSE f.existing_status
           updated == [i \in 1..Len(View(s).records) |->
                         IF /\ View(s).records[i].id = f.record_id
                            /\ View(s).records[i].current_version_id = f.parent_version_id
                         THEN [View(s).records[i] EXCEPT
                                 !.current_version_id = f.version_id,
                                 !.status = final_status,
                                 !.title = f.new_title]
                         ELSE View(s).records[i]]
       IN  Execute(s, [View(s) EXCEPT !.records = updated])
    /\ pc' = [pc EXCEPT ![s] = "cnv_commit"]
    /\ UNCHANGED <<frame, result, clock, session_state, script>>

\* a variant that also hands the record to the author of the new version
cnv_update_record_take_ownership(s) ==
    /\ pc[s] = "cnv_update_record"
    /\ LET f == frame[s]
           final_status == IF f.new_status # None THEN f.new_status
                           ELSE f.existing_status
           updated == [i \in 1..Len(View(s).records) |->
                         IF View(s).records[i].id = f.record_id
                         THEN [View(s).records[i] EXCEPT
                                 !.current_version_id = f.version_id,
                                 !.status = final_status,
                                 !.title = f.new_title,
                                 !.created_by = f.user.id]
                         ELSE View(s).records[i]]
       IN  Execute(s, [View(s) EXCEPT !.records = updated])
    /\ pc' = [pc EXCEPT ![s] = "cnv_commit"]
    /\ UNCHANGED <<frame, result, clock, session_state, script>>

\* UPDATE records SET current_version_id = ?, status = ?, title = ? WHERE id = ?
cnv_update_record(s) ==
    /\ pc[s] = "cnv_update_record"
    /\ LET f == frame[s]
           final_status == IF f.new_status # None THEN f.new_status
                           ELSE f.existing_status
           updated == [i \in 1..Len(View(s).records) |->
                         IF View(s).records[i].id = f.record_id
                         THEN [View(s).records[i] EXCEPT
                                 !.current_version_id = f.version_id,
                                 !.status = final_status,
                                 !.title = f.new_title]
                         ELSE View(s).records[i]]
       IN  Execute(s, [View(s) EXCEPT !.records = updated])
    /\ pc' = [pc EXCEPT ![s] = "cnv_commit"]
    /\ UNCHANGED <<frame, result, clock, session_state, script>>

\* conn.commit(); return RecordVersion(...)
cnv_commit(s) ==
    /\ pc[s] = "cnv_commit"
    /\ Commit(s)
    /\ LET f == frame[s] IN
       AfterReturn(s, [id |-> f.version_id, record_id |-> f.record_id,
                       version_number |-> f.next_version_number,
                       content |-> f.content,
                       created_by |-> f.user.id,
                       created_by_name |-> f.user.display_name,
                       created_at |-> f.now, version_type |-> f.version_type,
                       parent_version_id |-> f.parent_version_id])

(***************************************************************************)
(* add_comment, update_comment, delete_comment                             *)
(***************************************************************************)
\* INSERT INTO comments
add_insert(s) ==
    /\ pc[s] = "add_insert"
    /\ LET f == frame[s]
           row == [id |-> f.comment_id, record_id |-> f.record_id,
                   version_id |-> f.version_id, author_id |-> f.user.id,
                   author_name |-> f.user.display_name, role |-> f.user.role,
                   text |-> f.text, created_at |-> f.now]
       IN  Execute(s, [View(s) EXCEPT !.comments = Append(@, row)])
    /\ pc' = [pc EXCEPT ![s] = "add_commit"]
    /\ UNCHANGED <<frame, result, clock, session_state, script>>

\* conn.commit(); return Comment(...)
add_commit(s) ==
    /\ pc[s] = "add_commit"
    /\ Commit(s)
    /\ LET f == frame[s] IN
       AfterReturn(s, [id |-> f.comment_id, record_id |-> f.record_id,
                       version_id |-> f.version_id, author_id |-> f.user.id,
                       author_name |-> f.user.display_name, role |-> f.user.role,
                       text |-> f.text, created_at |-> f.now])

\* a variant whose UPDATE has no WHERE clause
upd_update_all(s) ==
    /\ pc[s] = "upd_update"
    /\ LET f == frame[s]
           updated == [i \in 1..Len(View(s).comments) |->
                         [View(s).comments[i] EXCEPT
                             !.text = f.new_text, !.created_at = f.now]]
       IN  Execute(s, [View(s) EXCEPT !.comments = updated])
    /\ pc' = [pc EXCEPT ![s] = "upd_commit"]
    /\ UNCHANGED <<frame, result, clock, session_state, script>>

\* a variant that looks at the number of rows the UPDATE matched and raises
\* when it matched none
upd_update_checked(s) ==
    /\ pc[s] = "upd_update"
    /\ LET f == frame[s]
           updated == [i \in 1..Len(View(s).comments) |->
                         IF View(s).comments[i].id = f.comment_id
                         THEN [View(s).comments[i] EXCEPT
                                 !.text = f.new_text, !.created_at = f.now]
                         ELSE View(s).comments[i]]
       IN  IF \E c \in Range(View(s).comments) : c.id = f.comment_id
           THEN /\ Execute(s, [View(s) EXCEPT !.comments = updated])
                /\ pc' = [pc EXCEPT ![s] = "upd_commit"]
                /\ UNCHANGED <<frame, result, clock, session_state, script>>
           ELSE Raise(s, "ValueError")

\* UPDATE comments SET text = ?, created_at = ? WHERE id = ?
upd_update(s) ==
    /\ pc[s] = "upd_update"
    /\ LET f == frame[s]
           updated == [i \in 1..Len(View(s).comments) |->
                         IF View(s).comments[i].id = f.comment_id
                         THEN [View(s).comments[i] EXCEPT
                                 !.text = f.new_text, !.created_at = f.now]
                         ELSE View(s).comments[i]]
       IN  Execute(s, [View(s) EXCEPT !.comments = updated])
    /\ pc' = [pc EXCEPT ![s] = "upd_commit"]
    /\ UNCHANGED <<frame, result, clock, session_state, script>>

upd_commit(s) ==
    /\ pc[s] = "upd_commit"
    /\ Commit(s)
    /\ AfterReturn(s, None)

\* DELETE FROM comments WHERE id = ?
del_delete(s) ==
    /\ pc[s] = "del_delete"
    /\ Execute(s, [View(s) EXCEPT !.comments =
                      SelectSeq(@, LAMBDA c : c.id # frame[s].comment_id)])
    /\ pc' = [pc EXCEPT ![s] = "del_commit"]
    /\ UNCHANGED <<frame, result, clock, session_state, script>>

del_commit(s) ==
    /\ pc[s] = "del_commit"
    /\ Commit(s)
    /\ AfterReturn(s, None)

\* created_at is a TEXT column and ORDER BY compares the strings.  An ISO
\* string starts with the date and the wall-clock reading of its zone: UTC's
\* for a naive UTC string, Toronto's, which is TORONTO_UTC_OFFSET hours
\* behind, for a Toronto string; the clock counts hours
wall_clock(ts) ==
    IF ts.tz = TORONTO_TZ THEN ts.t - TORONTO_UTC_OFFSET ELSE ts.t

\* the rank of the string: the wall-clock reading first; at one reading the
\* naive string is a prefix of the string that goes on with the offset
iso_text_key(ts) ==
    2 * wall_clock(ts) + (IF ts.tz = TORONTO_TZ THEN 1 ELSE 0)

_row_to_comment(row) == row

\* ORDER BY created_at ASC
list_comments_for_record(record_id) ==
    LET rows == SelectSeq(comments, LAMBDA c : c.record_id = record_id)
        sorted == OrderBy(rows, [c \in Range(rows) |-> iso_text_key(c.created_at)])
    IN  [i \in 1..Len(sorted) |-> _row_to_comment(sorted[i])]

(***************************************************************************)
(* log_override_events                                                     *)
(***************************************************************************)
\* a variant whose loop ends after the first entry
log_insert_first_only(s) ==
    /\ pc[s] = "log_insert"
    /\ LET f == frame[s]
           o == f.overrides[f.i]
           row == [id |-> Len(View(s).override_events) + 1,
                   record_id |-> f.record_id, version_id |-> f.version_id,
                   field_path |-> o[1],
                   original_value |-> json_dumps_value(o[2]),
                   new_value |-> json_dumps_value(o[3]),
                   overridden_by |-> f.user.id,
                   overridden_by_name |-> f.user.display_name,
                   overridden_at |-> f.now]
       IN  /\ Execute(s, [View(s) EXCEPT !.override_events = Append(@, row)])
           /\ frame' = [frame EXCEPT ![s].i = f.i + 1]
           /\ pc' = [pc EXCEPT ![s] = "log_commit"]
    /\ UNCHANGED <<result, clock, session_state, script>>

\* a variant that replaces an earlier event of the same record and field
\* (INSERT OR REPLACE keyed on record and field path)
log_insert_replace(s) ==
    /\ pc[s] = "log_insert"
    /\ LET f == frame[s]
           o == f.overrides[f.i]
           kept == SelectSeq(View(s).override_events,
                             LAMBDA e : ~(e.record_id = f.record_id
                                          /\ e.field_path = o[1]))
           row == [id |-> Len(View(s).override_events) + 1,
                   record_id |-> f.record_id, version_id |-> f.version_id,
                   field_path |-> o[1],
                   original_value |-> json_dumps_value(o[2]),
                   new_value |-> json_dumps_value(o[3]),
                   overridden_by |-> f.user.id,
                   overridden_by_name |-> f.user.display_name,
                   overridden_at |-> f.now]
       IN  /\ Execute(s, [View(s) EXCEPT !.override_events = Append(kept, row)])
           /\ frame' = [frame EXCEPT ![s].i = f.i + 1]
           /\ pc' = [pc EXCEPT ![s] = IF f.i = Len(f.overrides)
                                      THEN "log_commit" ELSE "log_insert"]
    /\ UNCHANGED <<result, clock, session_state, script>>

\* one turn of the loop: INSERT INTO override_events
log_insert(s) ==
    /\ pc[s] = "log_insert"
    /\ LET f == frame[s]
           o == f.overrides[f.i]
           row == [id |-> Len(View(s).override_events) + 1,
                   record_id |-> f.record_id, version_id |-> f.version_id,
                   field_path |-> o[1],
                   original_value |-> json_dumps_value(o[2]),
                   new_value |-> json_dumps_value(o[3]),
                   overridden_by |-> f.user.id,
                   overridden_by_name |-> f.user.display_name,
                   overridden_at |-> f.now]
       IN  /\ Execute(s, [View(s) EXCEPT !.override_events = Append(@, row)])
           /\ frame' = [frame EXCEPT ![s].i = f.i + 1]
           /\ pc' = [pc EXCEPT ![s] = IF f.i = Len(f.overrides)
                                      THEN "log_commit" ELSE "log_insert"]
    /\ UNCHANGED <<result, clock, session_state, script>>

log_commit(s) ==
    /\ pc[s] = "log_commit"
    /\ Commit(s)
    /\ AfterReturn(s, None)

\* original_value / new_value: json.loads(text) if text else None
_row_to_override_event(row) ==
    [row EXCEPT !.original_value = IF @ = <<>> THEN NoneValue ELSE json_loads_value(@),
                !.new_value = IF @ = <<>> THEN NoneValue ELSE json_loads_value(@)]

\* ORDER BY overridden_at ASC
list_overrides_for_record(record_id) ==
    LET rows == SelectSeq(override_events, LAMBDA e : e.record_id = record_id)
        sorted == OrderBy(rows, [e \in Range(rows) |-> e.overridden_at.t])
    IN  [i \in 1..Len(sorted) |-> _row_to_override_event(sorted[i])]

(***************************************************************************)
(* A failure injected into a running call: the statement about to run      *)
(* raises (I/O error, lock timeout, interrupt).                            *)
(***************************************************************************)
Fail(s) ==
    /\ pc[s] # "idle"
    /\ Raise(s, "Exception")

(***************************************************************************)
(* Inputs.                                                                 *)
(***************************************************************************)
Statuses == {"draft", "submitted"}

Content(framework_tags, capability_groups) ==
    [business_problem |-> "bp", description |-> "desc",
     ai_metadata |-> [framework_tags |-> framework_tags,
                      capability_groups |-> capability_groups]]

\* What the repository only copies into a row and never looks at (the
\* title, the content document, the author, the version type, a status
\* that is given) is drawn together, as one of two payloads that differ in
\* every part.
Payloads ==
    { [title |-> "Title A", content |-> Content(<<"A", "B">>, <<>>),
       user |-> get_mock_users[1], version_type |-> "edit", status |-> "draft"],
      [title |-> "Title B", content |-> Content(<<"B", "A">>, <<"X">>),
       user |-> get_mock_users[2], version_type |-> "override",
       status |-> "submitted"] }

\* str.strip() of the texts typed into the forms
strip(text) ==
    CASE text = "  " -> ""
      [] text = " Title B " -> "Title B"
      [] text = " edited " -> "edited"
      [] OTHER -> text

\* What is typed into a form.  The tag fields are given as the lists the
\* comma-split yields (any list of stripped, non-empty, comma-free tags).
\* A title goes with a status: both are only copied.
Form(title, status, content) == [title |-> title, status |-> status, content |-> content]

TypedContents == { Content(<<"B", "A">>, <<>>),
                   Content(<<"B", "A">>, <<"X">>) }

\* the create form: nothing is prefilled
CreateForms ==
    { Form("Title A", "draft", Content(<<"A", "B">>, <<>>)),
      Form(" Title B ", "submitted", Content(<<"B", "A">>, <<"X">>)),
      Form("  ", "draft", Content(<<>>, <<>>)) }

\* the edit form: prefilled from the record and its current version, a
\* field left as it is or typed over.  A tag list left as it is comes back
\* as it was: it is joined with ", " and split at "," with each tag
\* stripped, and the tags, all from forms and the demo data, hold no comma
\* and no outer blank.
EditForms(record, current_version) ==
    { Form(record.title, st, current_version.content) : st \in Statuses }
    \cup { Form(record.title, record.status, c) : c \in TypedContents }
    \cup { Form("  ", record.status, current_version.content) }

\* what is typed into the comment box, and over a comment being edited
CommentTexts == {"hello", "  "}
EditTexts == {" edited ", "  "}

(***************************************************************************)
(* app.py: one run of the script per user interaction.                     *)
(***************************************************************************)
\* show_editor, line 366
can_manage(user, c) == is_admin(user) \/ c.author_id = user.id

\* st.session_state.get("editing_comment_id")
editing_comment_id(s) ==
    IF Has(session_state[s], "editing_comment_id")
    THEN session_state[s]["editing_comment_id"] ELSE NULL

Initialized(s) == Has(session_state[s], "demo_data_initialized")

\* the run starts a repository call
StartCall(s, f, first_pc, flow) ==
    /\ frame' = [frame EXCEPT ![s] = f]
    /\ pc' = [pc EXCEPT ![s] = first_pc]
    /\ script' = [script EXCEPT ![s] = flow]
    /\ result' = [result EXCEPT ![s] = NoResult]

\* the run ends without a repository call
NoCall == UNCHANGED <<frame, pc, script, result, clock>>

\* main, lines 679-684: the first run of a session, as the default user
\* (get_current_user, lines 32-33), and ensure_demo_data
app_first_run(s) ==
    /\ pc[s] = "idle"
    /\ ~Initialized(s)
    /\ IF count_records > 0
       THEN /\ session_state' = [session_state EXCEPT
                   ![s] = Put(@, "demo_data_initialized", TRUE)]
            /\ NoCall
       ELSE /\ clock < MaxAppClock
            /\ StartCall(s, Frame_create_record_with_initial_version(
                               "Fraud Detection in Benefit Claims", "ai_use_case",
                               demo_content_1, get_mock_users[1], "draft"),
                         "crv_insert_record", [flow |-> "seed1"])
            /\ clock' = clock + 1
            /\ UNCHANGED session_state
    /\ UNCHANGED <<db, lock, txn>>

\* a variant of show_editor without the viewer's early return
EditorUser_any_role(s, user) ==
    /\ pc[s] = "idle"
    /\ Initialized(s)
    /\ user \in MockUsers

\* get_current_user, lines 26-43: the user of a run is the one selected in
\* the sidebar.  Selecting a user is a run of its own that only redraws,
\* so a click as `user` stands for that selection followed by the click.
\* show_editor, lines 120-125: a viewer gets no editor.
EditorUser(s, user) ==
    /\ pc[s] = "idle"
    /\ Initialized(s)
    /\ user \in MockUsers
    /\ ~is_viewer(user)

\* show_editor, lines 120-125: the page as a viewer gets it, whatever is
\* selected or was clicked before: a notice and nothing else
app_viewer_editor(s) ==
    /\ pc[s] = "idle"
    /\ Initialized(s)
    /\ \E user \in MockUsers : is_viewer(user)
    /\ NoCall
    /\ UNCHANGED <<db, lock, txn, session_state>>

\* show_editor, lines 170-196: "Create Record"
app_create_record(s) ==
    /\ \E user \in MockUsers, form \in CreateForms :
        /\ EditorUser(s, user)
        /\ IF strip(form.title) = ""
           THEN NoCall
           ELSE /\ clock < MaxAppClock
                /\ StartCall(s, Frame_create_record_with_initial_version(
                                   strip(form.title), "ai_use_case", form.content,
                                   user, form.status),
                             "crv_insert_record", [flow |-> "create"])
                /\ clock' = clock + 1
    /\ UNCHANGED <<db, lock, txn, session_state>>

\* app.py, lines 14-23
get_display_name_for_user_id(user_id) ==
    IF \E u \in MockUsers : u.id = user_id
    THEN (CHOOSE u \in MockUsers : u.id = user_id).display_name
    ELSE IF user_id = "admin-seed" THEN "Seeded Admin Record Owner"
    ELSE user_id

\* show_editor, lines 220-226: the selectbox's options are a dict keyed by
\* label, so of the records with one label the last listed is the one kept
RecordLabel(r) == <<r.title, r.status, get_display_name_for_user_id(r.created_by)>>

SelectableRecordIds(user) ==
    LET listed == list_records_for_user(user)
    IN  { listed[i].id : i \in { j \in 1..Len(listed) :
            \A k \in (j + 1)..Len(listed) : RecordLabel(listed[k]) # RecordLabel(listed[j]) } }

\* show_editor, lines 207-238: the record selected and its current version
EditorRecord(s, user, record, current_version) ==
    /\ EditorUser(s, user)
    /\ record.id \in SelectableRecordIds(user)
    /\ record = get_record_by_id(record.id)
    /\ current_version = get_current_version(record.id)
    /\ current_version # NoneRow

RecordRows == Range(records)
VersionRows == { _row_to_record_version(v) : v \in Range(record_versions) }

\* a variant that decides by the diff alone
SaveVersionType_by_diff(user, overrides) ==
    IF overrides # <<>> THEN "override" ELSE "edit"

\* show_editor, lines 322-325
SaveVersionType(user, overrides) ==
    IF is_admin(user) /\ overrides # <<>> THEN "override" ELSE "edit"

\* show_editor, lines 296-342: "Save New Version"
app_save_version(s) ==
    /\ \E user \in MockUsers, record \in RecordRows, current_version \in VersionRows :
        /\ EditorRecord(s, user, record, current_version)
        /\ \E form \in EditForms(record, current_version) :
            LET existing_meta == current_version.content.ai_metadata
                updated_content == form.content
                overrides == diff_ai_metadata(existing_meta, updated_content.ai_metadata)
                version_type == SaveVersionType(user, overrides)
            IN  IF strip(form.title) = ""
                THEN UNCHANGED <<frame, pc, script, result>>
                ELSE /\ clock < MaxAppClock
                     /\ StartCall(s, Frame_create_new_version(
                                        record.id, strip(form.title), updated_content,
                                        user, version_type, form.status),
                                  "cnv_select_record",
                                  [flow |-> "save", user |-> user,
                                   record_id |-> record.id,
                                   current_version_id |-> current_version.id,
                                   overrides |-> overrides,
                                   version_type |-> version_type])
    /\ UNCHANGED <<db, lock, txn, clock, session_state>>

\* show_editor, lines 378-380: "Edit" on a comment
app_click_edit(s) ==
    /\ \E user \in MockUsers, record \in RecordRows, current_version \in VersionRows :
        /\ EditorRecord(s, user, record, current_version)
        /\ \E c \in Range(list_comments_for_record(record.id)) :
            /\ can_manage(user, c)
            /\ session_state' = [session_state EXCEPT
                    ![s] = Put(Put(@, "editing_comment_id", c.id),
                               "editing_comment_text", c.text)]
    /\ NoCall
    /\ UNCHANGED <<db, lock, txn>>

\* show_editor, lines 382-385: "Delete" on a comment
app_delete_comment(s) ==
    /\ \E user \in MockUsers, record \in RecordRows, current_version \in VersionRows :
        /\ EditorRecord(s, user, record, current_version)
        /\ \E c \in Range(list_comments_for_record(record.id)) :
            /\ can_manage(user, c)
            /\ StartCall(s, Frame_delete_comment(c.id), "del_delete",
                         [flow |-> "delete_comment", user |-> user])
    /\ UNCHANGED <<db, lock, txn, clock, session_state>>

\* show_editor, lines 396-414: "Save changes" under "Edit comment"
app_save_comment(s) ==
    /\ editing_comment_id(s) # NULL
    /\ \E user \in MockUsers, record \in RecordRows, current_version \in VersionRows :
        /\ EditorRecord(s, user, record, current_version)
        /\ \E edit_text \in EditTexts :
            IF strip(edit_text) = ""
            THEN NoCall
            ELSE /\ clock < MaxAppClock
                 /\ StartCall(s, Frame_update_comment(editing_comment_id(s),
                                                      strip(edit_text)),
                              "upd_update",
                              [flow |-> "save_comment", user |-> user])
                 /\ clock' = clock + 1
    /\ UNCHANGED <<db, lock, txn, session_state>>

\* show_editor, lines 416-418: "Cancel edit"
app_cancel_edit(s) ==
    /\ editing_comment_id(s) # NULL
    /\ \E user \in MockUsers, record \in RecordRows, current_version \in VersionRows :
        EditorRecord(s, user, record, current_version)
    /\ session_state' = [session_state EXCEPT
            ![s] = Put(@, "editing_comment_id", NULL)]
    /\ NoCall
    /\ UNCHANGED <<db, lock, txn>>

\* show_editor, lines 420-440: "Post Comment"
app_post_comment(s) ==
    /\ editing_comment_id(s) = NULL
    /\ \E user \in MockUsers, record \in RecordRows, current_version \in VersionRows :
        /\ EditorRecord(s, user, record, current_version)
        /\ \E comment_text \in CommentTexts :
            IF strip(comment_text) = ""
            THEN NoCall
            ELSE /\ clock < MaxAppClock
                 /\ StartCall(s, Frame_add_comment(record.id, current_version.id,
                                                   strip(comment_text), user),
                              "add_insert", [flow |-> "post_comment"])
                 /\ clock' = clock + 1
    /\ UNCHANGED <<db, lock, txn, session_state>>

(***************************************************************************)
(* The repository called directly, with any arguments.                     *)
(***************************************************************************)
DirectCall(s, f, first_pc) ==
    /\ pc[s] = "idle"
    /\ StartCall(s, f, first_pc, NoScript)
    /\ UNCHANGED <<db, lock, txn, session_state>>

Call_create_record_with_initial_version(s) ==
    /\ clock < MaxClock
    /\ \E p \in Payloads :
          DirectCall(s, Frame_create_record_with_initial_version(
                            p.title, "ai_use_case", p.content, p.user, p.status),
                     "crv_insert_record")
    /\ clock' = clock + 1

\* a record id is one of those in the table, or one that is not; the call
\* reads the clock only once it has found the record
Call_create_new_version(s) ==
    /\ \E record_id \in 1..(Len(records) + 1), p \in Payloads :
       \E new_status \in {p.status, None} :
          /\ clock < MaxClock \/ get_record_by_id(record_id) = NoneRow
          /\ DirectCall(s, Frame_create_new_version(record_id, p.title, p.content,
                                                    p.user, p.version_type, new_status),
                        "cnv_select_record")
    /\ UNCHANGED clock

\* what add_comment only copies: the text and the author
CommentPayloads ==
    { [text |-> "hello", user |-> get_mock_users[1]],
      [text |-> "note", user |-> get_mock_users[2]] }

\* a record and its current version, or a record id that is not in the
\* table with no version
CommentTargets ==
    { <<r.id, r.current_version_id>> : r \in Range(records) }
    \cup { <<Len(records) + 1, NULL>> }

\* the id of a comment in the table, or one that is not
CommentIds == { c.id : c \in Range(comments) } \cup { clock + 1 }

Call_add_comment(s) ==
    /\ clock < MaxClock
    /\ \E target \in CommentTargets, p \in CommentPayloads :
          DirectCall(s, Frame_add_comment(target[1], target[2], p.text, p.user),
                     "add_insert")
    /\ clock' = clock + 1

Call_update_comment(s) ==
    /\ clock < MaxClock
    /\ \E comment_id \in CommentIds :
          DirectCall(s, Frame_update_comment(comment_id, "edited"), "upd_update")
    /\ clock' = clock + 1

Call_delete_comment(s) ==
    /\ \E comment_id \in CommentIds :
          DirectCall(s, Frame_delete_comment(comment_id), "del_delete")
    /\ UNCHANGED clock

OverrideLists ==
    { <<>>,
      << <<"ai_metadata.framework_tags", <<"A">>, <<"A", "B">> >> >>,
      << <<"ai_metadata.framework_tags", <<"A", "B">>, <<"B", "A">> >>,
         <<"ai_metadata.capability_groups", <<>>, <<"X">> >> >> }

\* log_override_events, lines 598-599: an empty list returns at once
Call_log_override_events(s) ==
    /\ clock < MaxClock
    /\ \E target \in CommentTargets, overrides \in OverrideLists :
        LET f == Frame_log_override_events(target[1], target[2], overrides,
                                           get_mock_users[2])
        IN  IF overrides = <<>>
            THEN /\ pc[s] = "idle"
                 /\ result' = [result EXCEPT ![s] =
                        [outcome |-> "returned", fn |-> f.fn, value |-> None]]
                 /\ UNCHANGED <<db, lock, txn, pc, frame, clock, session_state, script>>
            ELSE /\ DirectCall(s, f, "log_insert")
                 /\ clock' = clock + 1

Init ==
    /\ records = <<>>
    /\ record_versions = <<>>
    /\ comments = <<>>
    /\ override_events = <<>>
    /\ lock = NULL
    /\ txn = [s \in Sessions |-> NoTxn]
    /\ pc = [s \in Sessions |-> "idle"]
    /\ frame = [s \in Sessions |-> NoFrame]
    /\ result = [s \in Sessions |-> NoResult]
    /\ clock = 0
    /\ session_state = [s \in Sessions |-> EmptyDict]
    /\ script = [s \in Sessions |-> NoScript]

\* the single-writer-at-a-time use the system is designed for: one session
\* makes every run, one thread every call, each ended before the next
SingleWriter == {1}

(***************************************************************************)
(* The application, app.py, used as the system is designed to be used: one *)
(* script run at a time.  The user of each run is chosen in the sidebar.   *)
(***************************************************************************)
NextSeq ==
    \E s \in SingleWriter :
        \/ app_first_run(s)
        \/ app_viewer_editor(s)
        \/ app_create_record(s)
        \/ app_save_version(s)
        \/ app_post_comment(s)
        \/ app_click_edit(s)
        \/ app_save_comment(s)
        \/ app_cancel_edit(s)
        \/ app_delete_comment(s)
        \/ crv_insert_record(s)
        \/ crv_insert_version(s)
        \/ crv_commit(s)
        \/ cnv_select_record(s)
        \/ cnv_select_max(s)
        \/ cnv_insert_version(s)
        \/ cnv_update_record(s)
        \/ cnv_commit(s)
        \/ add_insert(s)
        \/ add_commit(s)
        \/ upd_update(s)
        \/ upd_commit(s)
        \/ del_delete(s)
        \/ del_commit(s)
        \/ log_insert(s)
        \/ log_commit(s)
        \/ Fail(s)

SpecSeq == Init /\ [][NextSeq]_vars

(***************************************************************************)
(* The repository's own contract: threads calling it directly.             *)
(***************************************************************************)
NextRepo ==
    \E s \in Sessions :
        \/ Call_create_record_with_initial_version(s)
        \/ crv_insert_record(s)
        \/ crv_insert_version(s)
        \/ crv_commit(s)
        \/ clock < MaxClock /\ Call_create_new_version(s)
        \/ cnv_select_record(s)
        \/ cnv_select_max(s)
        \/ cnv_insert_version(s)
        \/ cnv_update_record(s)
        \/ cnv_commit(s)
        \/ Fail(s)

SpecRepo == Init /\ [][NextRepo]_vars

\* every repository call, one at a time
NextRepoSeq ==
    \E s \in SingleWriter :
        \/ Call_create_record_with_initial_version(s)
        \/ crv_insert_record(s)
        \/ crv_insert_version(s)
        \/ crv_commit(s)
        \/ Call_create_new_version(s)
        \/ cnv_select_record(s)
        \/ cnv_select_max(s)
        \/ cnv_insert_version(s)
        \/ cnv_update_record(s)
        \/ cnv_commit(s)
        \/ Call_add_comment(s)
        \/ add_insert(s)
        \/ add_commit(s)
        \/ Call_update_comment(s)
        \/ upd_update(s)
        \/ upd_commit(s)
        \/ Call_delete_comment(s)
        \/ del_delete(s)
        \/ del_commit(s)
        \/ Call_log_override_events(s)
        \/ log_insert(s)
        \/ log_commit(s)
        \/ Fail(s)

SpecRepoSeq == Init /\ [][NextRepoSeq]_vars

(***************************************************************************)
(* Properties.                                                             *)
(***************************************************************************)
(***************************************************************************)
(* The same threads with no failure injected, each one kept running: a     *)
(* call that has started takes its next statement as soon as it can (a     *)
(* writer that finds the database locked retries until the lock is free).  *)
(* Every statement moves the thread's position, so fairness is stated on   *)
(* pc.  Records are created while the table is empty; the calls that       *)
(* follow are new versions of those records.                               *)
(***************************************************************************)
(***************************************************************************)
(* diff_ai_metadata on its own: a caller holds two metadata documents (a   *)
(* dict with both lists, with one, with none, with None for a list, or     *)
(* None for the document) and calls the function once.                     *)
(***************************************************************************)
MetaLists == { <<>>, <<"A">>, <<"A", "B">>, <<"B", "A">>, NoneValue }

MetaDocs ==
    {NoneDict, EmptyDict}
    \cup { [framework_tags |-> f] : f \in MetaLists }
    \cup { [capability_groups |-> c] : c \in MetaLists }
    \cup { [framework_tags |-> f, capability_groups |-> c] :
              f \in MetaLists, c \in MetaLists }

Frame_diff_ai_metadata(old_meta, new_meta) ==
    [fn |-> "diff_ai_metadata", old_meta |-> old_meta, new_meta |-> new_meta]

InitDiff ==
    /\ records = <<>>
    /\ record_versions = <<>>
    /\ comments = <<>>
    /\ override_events = <<>>
    /\ lock = NULL
    /\ txn = [s \in Sessions |-> NoTxn]
    /\ \E old_meta \in MetaDocs, new_meta \in MetaDocs :
          frame = [s \in Sessions |->
                      IF s \in SingleWriter
                      THEN Frame_diff_ai_metadata(old_meta, new_meta)
                      ELSE NoFrame]
    /\ pc = [s \in Sessions |->
                IF s \in SingleWriter THEN "diff_ai_metadata" ELSE "idle"]
    /\ result = [s \in Sessions |-> NoResult]
    /\ clock = 0
    /\ session_state = [s \in Sessions |-> EmptyDict]
    /\ script = [s \in Sessions |-> NoScript]

Return_diff_ai_metadata(s) ==
    /\ pc[s] = "diff_ai_metadata"
    /\ pc' = [pc EXCEPT ![s] = "idle"]
    /\ result' = [result EXCEPT ![s] =
            [outcome |-> "returned", fn |-> frame[s].fn,
             value |-> diff_ai_metadata(frame[s].old_meta, frame[s].new_meta)]]
    /\ UNCHANGED <<db, lock, txn, frame, clock, session_state, script>>

NextDiff == \E s \in SingleWriter : Return_diff_ai_metadata(s)

SpecDiff == InitDiff /\ [][NextDiff]_vars

RepositoryStep(s) ==
    \/ crv_insert_record(s)
    \/ crv_insert_version(s)
    \/ crv_commit(s)
    \/ cnv_select_record(s)
    \/ cnv_select_max(s)
    \/ cnv_insert_version(s)
    \/ cnv_update_record(s)
    \/ cnv_commit(s)

NextRepoLive ==
    \E s \in Sessions :
        \/ records = <<>> /\ Call_create_record_with_initial_version(s)
        \/ clock < MaxClock /\ Call_create_new_version(s)
        \/ RepositoryStep(s)

SpecRepoLive ==
    /\ Init
    /\ [][NextRepoLive]_vars
    /\ \A s \in Sessions : WF_pc(RepositoryStep(s))

(***************************************************************************)
(* Two sessions of the page, each in its own thread: the first run of each *)
(* and admins saving new versions, the repository calls of one session     *)
(* interleaving with those of the other.                                   *)
(***************************************************************************)
NextSave ==
    \E s \in Sessions :
        \/ app_first_run(s)
        \/ /\ app_save_version(s)
           /\ script'[s].flow = "save" => is_admin(script'[s].user)
        \/ crv_insert_record(s)
        \/ crv_insert_version(s)
        \/ crv_commit(s)
        \/ cnv_select_record(s)
        \/ cnv_select_max(s)
        \/ cnv_insert_version(s)
        \/ cnv_update_record(s)
        \/ cnv_commit(s)
        \/ log_insert(s)
        \/ log_commit(s)

SpecSave == Init /\ [][NextSave]_vars

(***************************************************************************)
(* Two threads that create a record in the empty store and then new        *)
(* versions of the records there are, up to MaxRaceClock readings of the   *)
(* clock, so that a call can overlap two calls of the other thread.        *)
(***************************************************************************)
MaxRaceClock == 4

Call_create_new_version_of_record(s) ==
    /\ clock < MaxRaceClock
    /\ \E r \in Range(records), p \in Payloads :
          DirectCall(s, Frame_create_new_version(r.id, p.title, p.content,
                                                 p.user, p.version_type, p.status),
                     "cnv_select_record")
    /\ UNCHANGED clock

NextRepoRace ==
    \E s \in Sessions :
        \/ records = <<>> /\ Call_create_record_with_initial_version(s)
        \/ Call_create_new_version_of_record(s)
        \/ crv_insert_record(s)
        \/ crv_insert_version(s)
        \/ crv_commit(s)
        \/ cnv_select_record(s)
        \/ cnv_select_max(s)
        \/ cnv_insert_version(s)
        \/ cnv_update_record(s)
        \/ cnv_commit(s)

SpecRepoRace == Init /\ [][NextRepoRace]_vars

VersionRowsOf(record_id) ==
    { v \in Range(record_versions) : v.record_id = record_id }

\* C1: for every record, after any sequence of calls of
\* create_record_with_initial_version and create_new_version,
\* list_versions_for_record returns the record's N versions numbered
\* exactly 1..N, without gap or duplicate, in increasing order, which is
\* the order of creation (rowid and timestamp)
C1_VersionNumbersOneToN ==
    \A r \in Range(records) :
        LET listed == list_versions_for_record(r.id)
            N == Cardinality(VersionRowsOf(r.id))
        IN  /\ Len(listed) = N
            /\ \A i \in 1..N : listed[i].version_number = i
            /\ \A i \in 1..N : \A j \in 1..N :
                  i < j => /\ listed[i].id < listed[j].id
                           /\ listed[i].created_at.t < listed[j].created_at.t

\* a record with three versions
C1_Witness ==
    \E r \in Range(records) : Len(list_versions_for_record(r.id)) = 3

\* C2: history is append-only: no step of any operation (the two creates,
\* the three comment operations, log_override_events, ensure_demo_data)
\* changes a field of a version row that exists or deletes it, and the row
\* stays in what list_versions_for_record returns
C2_HistoryAppendOnly ==
    /\ [][ /\ Len(record_versions') >= Len(record_versions)
           /\ \A i \in 1..Len(record_versions) :
                 record_versions'[i] = record_versions[i]
         ]_vars
    /\ [](\A row \in Range(record_versions) :
             _row_to_record_version(row)
                 \in Range(list_versions_for_record(row.record_id)))

\* a record has a second version, an override has been logged and a comment
\* has been written
C2_Witness ==
    /\ \E v \in Range(record_versions) : v.version_number = 2
    /\ override_events # <<>>
    /\ comments # <<>>

\* C3: when create_new_version returns, get_current_version of the record
\* is the returned version, the record's title is new_title, and its
\* status is new_status, or the status it had before when new_status is None
C3_CurrentVersionIsTheNewOne ==
    [][ \A s \in Sessions :
          (pc[s] = "cnv_commit" /\ result'[s].outcome = "returned") =>
            \A f \in {frame[s]} : \A before \in {get_record_by_id(f.record_id)} :
                /\ get_current_version(f.record_id)' = result'[s].value
                /\ result'[s].value.content = f.content
                /\ get_record_by_id(f.record_id)'.title = f.new_title
                /\ get_record_by_id(f.record_id)'.status =
                        IF f.new_status # None THEN f.new_status ELSE before.status
      ]_vars

\* create_new_version has returned the version that is now current, on a
\* record created as a draft that is now submitted
C3_Witness ==
    \E s \in Sessions :
        /\ result[s].outcome = "returned"
        /\ result[s].fn = "create_new_version"
        /\ result[s].value.version_number = 2
        /\ get_current_version(result[s].value.record_id) = result[s].value
        /\ get_record_by_id(result[s].value.record_id).status = "submitted"

\* C4: in every committed state every record has a current_version_id that
\* is not null and is the id of a version row of that record
C4_CurrentVersionExists ==
    \A r \in Range(records) :
        /\ r.current_version_id # NULL
        /\ \E v \in Range(record_versions) :
              v.id = r.current_version_id /\ v.record_id = r.id

\* a call has inserted its record and not yet its version, beside committed
\* records
C4_Witness ==
    /\ records # <<>>
    /\ \E s \in Sessions :
          /\ pc[s] = "crv_insert_version"
          /\ Len(txn[s].records) > Len(records)

\* the tracked fields whose lists differ between two content documents
TrackedPath ==
    [framework_tags |-> "ai_metadata.framework_tags",
     capability_groups |-> "ai_metadata.capability_groups"]

ChangedTracked(old_content, new_content) ==
    { k \in DOMAIN TrackedPath : old_content.ai_metadata[k] # new_content.ai_metadata[k] }

VersionById(version_id) ==
    _row_to_record_version(
        CHOOSE v \in Range(record_versions) : v.id = version_id)

EventsOf(version_id) ==
    { e \in Range(override_events) : e.version_id = version_id }

\* a save run of the editor ends with its work committed
SaveEnds(s) ==
    /\ script[s].flow \in {"save", "log"}
    /\ script'[s] = NoScript
    /\ \/ Len(record_versions') > Len(record_versions)
       \/ Len(override_events') > Len(override_events)

\* the version a sequential save has written: the last row
SavedVersion == VersionById(Len(record_versions))

\* C5: when an admin's save ends, the new version is an 'override' exactly
\* if a tracked field differs from the version that was current before,
\* and then the ledger holds one event per changed field, for the new
\* version; otherwise it is an 'edit' with no event
C5_AdminSaveOverrides ==
    [][ \A s \in Sessions :
          (SaveEnds(s) /\ is_admin(script[s].user)) =>
            \A v \in {SavedVersion'} :
            \A previous \in {VersionById(v.parent_version_id)'} :
            \A events \in {EventsOf(v.id)'} :
            LET changed == ChangedTracked(previous.content, v.content)
            IN  /\ v.created_by = script[s].user.id
                /\ previous.id = script[s].current_version_id
                /\ v.version_type = IF changed # {} THEN "override" ELSE "edit"
                /\ Cardinality(events) = Cardinality(changed)
                /\ \A k \in changed :
                      \E e \in events :
                          /\ e.field_path = TrackedPath[k]
                          /\ e.record_id = v.record_id
                          /\ json_loads_value(e.original_value) = previous.content.ai_metadata[k]
                          /\ json_loads_value(e.new_value) = v.content.ai_metadata[k]
      ]_vars

\* an admin's override of both tracked fields with its two events, and an
\* admin's edit that changed no tracked field
C5_Witness ==
    /\ \E v \in Range(record_versions) :
          /\ v.version_type = "override"
          /\ RoleOfUserId(v.created_by) = ADMIN
          /\ Cardinality(EventsOf(v.id)) = 2
    /\ \E v \in Range(record_versions) :
          /\ v.version_type = "edit"
          /\ RoleOfUserId(v.created_by) = ADMIN

\* C6: a save by an author who is not an admin writes only 'edit'
\* versions and leaves the override ledger as it was, at every step of the
\* run, whatever was changed
C6_NonAdminNeverOverrides ==
    [][ \A s \in Sessions :
          (script[s].flow \in {"save", "log"} /\ ~is_admin(script[s].user)) =>
            /\ override_events' = override_events
            /\ script'[s].flow # "log"
            /\ pc'[s] \notin {"log_insert", "log_commit"}
            /\ \A i \in (Len(record_versions) + 1)..Len(record_versions') :
                  record_versions'[i].version_type = "edit"
      ]_vars

\* a plain user's committed version that changed a tracked field
C6_Witness ==
    \E v \in Range(record_versions) :
        /\ RoleOfUserId(v.created_by) = USER
        /\ v.parent_version_id # NULL
        /\ ChangedTracked(VersionById(v.parent_version_id).content,
                          VersionById(v.id).content) # {}

ListedIds(user) ==
    { list_records_for_user(user)[i].id : i \in 1..Len(list_records_for_user(user)) }

\* C7: list_records_for_user returns every record to an admin, exactly the
\* records created by the user to a plain user, and exactly the records
\* whose status is not 'draft' to a viewer, each once
C7_Visibility ==
    \A user \in MockUsers :
        /\ Len(list_records_for_user(user)) = Cardinality(ListedIds(user))
        /\ Range(list_records_for_user(user)) \subseteq Range(records)
        /\ ListedIds(user) =
              IF user.role = ADMIN THEN { r.id : r \in Range(records) }
              ELSE IF user.role = USER
                   THEN { r.id : r \in { q \in Range(records) : q.created_by = user.id } }
                   ELSE { r.id : r \in { q \in Range(records) : q.status # "draft" } }

\* the demo record seeded as submitted has been set back to draft, beside
\* a record that is not a draft
C7_Witness ==
    /\ \E r \in Range(records) : r.created_by = "admin-seed" /\ r.status = "draft"
    /\ \E r \in Range(records) : r.status # "draft"
    /\ \E r \in Range(records) : r.created_by = "user-1" /\ r.status # "draft"

\* C8: create_new_version for a record id that is not in the table raises
\* (ValueError, unless the SELECT itself failed), never goes on to its
\* INSERT, and leaves the four tables as they were
C8_NotFound ==
    [][ \A s \in Sessions :
          ( /\ pc[s] = "cnv_select_record"
            /\ get_record_by_id(frame[s].record_id) = NoneRow
            /\ pc'[s] # pc[s] ) =>
            /\ pc'[s] = "idle"
            /\ result'[s].outcome = "raised"
            /\ result'[s].value \in {"ValueError", "Exception"}
            /\ txn'[s] = NoTxn
            /\ UNCHANGED db
      ]_vars

\* the call has raised ValueError with rows in all four tables
C8_Witness ==
    /\ \E s \in Sessions :
          /\ result[s].outcome = "raised"
          /\ result[s].fn = "create_new_version"
          /\ result[s].value = "ValueError"
    /\ records # <<>>
    /\ record_versions # <<>>
    /\ comments # <<>>
    /\ override_events # <<>>

\* C9: in every committed state a record row and its version 1 exist together
\* or not at all, also after a failure between the two inserts
C9_RecordAndVersionTogether ==
    /\ \A r \in Range(records) :
          \E v \in Range(record_versions) :
              v.record_id = r.id /\ v.version_number = 1 /\ v.created_at = r.created_at
    /\ \A v \in Range(record_versions) :
          \E r \in Range(records) : r.id = v.record_id

\* create_record_with_initial_version has failed at its second insert
C9_Witness ==
    \E s \in Sessions :
        /\ result[s].outcome = "raised"
        /\ result[s].fn = "create_record_with_initial_version"
        /\ result[s].at = "crv_insert_version"

CnvSteps == {"cnv_select_record", "cnv_select_max", "cnv_insert_version",
             "cnv_update_record", "cnv_commit"}

\* C10: every step that publishes a version row publishes with it the
\* record pointing at that version; the commit of create_new_version
\* publishes the title and the status in that step too; and a step of the
\* call that is not its successful commit leaves the committed tables,
\* which are what every reader sees, as they were
C10_NewVersionAtomic ==
    [][ /\ \A i \in (Len(record_versions) + 1)..Len(record_versions') :
              \E r \in Range(records') :
                  /\ r.id = record_versions'[i].record_id
                  /\ r.current_version_id = record_versions'[i].id
        /\ \A s \in Sessions :
              (pc[s] \in CnvSteps /\ pc'[s] # pc[s]) =>
                  IF pc[s] = "cnv_commit" /\ result'[s].outcome = "returned"
                  THEN \A f \in {frame[s]} :
                       \A r \in {get_record_by_id(f.record_id)'} :
                           /\ record_versions' = Append(record_versions,
                                    record_versions'[Len(record_versions')])
                           /\ record_versions'[Len(record_versions')].id = f.version_id
                           /\ r.current_version_id = f.version_id
                           /\ r.title = f.new_title
                           /\ r.status = IF f.new_status # None THEN f.new_status
                                         ELSE f.existing_status
                  ELSE UNCHANGED db
      ]_vars

\* one call has failed after its insert while another call's version is
\* committed
C10_Witness ==
    /\ \E s \in Sessions :
          /\ result[s].outcome = "raised"
          /\ result[s].fn = "create_new_version"
          /\ result[s].at \in {"cnv_update_record", "cnv_commit"}
    /\ \E v \in Range(record_versions) : v.version_number = 2

\* C11: a version written by create_new_version has as parent the
\* record's current_version_id that the call read at its first SELECT, and
\* a version has no parent exactly if it is a version 1, the one written
\* by create_record_with_initial_version
C11_ParentIsCurrentAtCall ==
    /\ [][ \A s \in Sessions :
            /\ (pc[s] = "cnv_select_record" /\ pc'[s] = "cnv_select_max") =>
                  frame'[s].parent_version_id =
                      get_record_by_id(frame[s].record_id).current_version_id
            /\ (pc[s] \in CnvSteps \ {"cnv_select_record"} /\ pc'[s] \in CnvSteps) =>
                  frame'[s].parent_version_id = frame[s].parent_version_id
            /\ (pc[s] = "cnv_commit" /\ result'[s].outcome = "returned") =>
                  /\ Len(record_versions') = Len(record_versions) + 1
                  /\ record_versions'[Len(record_versions')].parent_version_id =
                        frame[s].parent_version_id
                  /\ record_versions'[Len(record_versions')].version_type =
                        frame[s].version_type
         ]_vars
    /\ [](\A v \in Range(record_versions) :
             /\ (v.parent_version_id = NULL) <=> (v.version_number = 1)
             /\ (v.parent_version_id = NULL) <=>
                    (\E r \in Range(records) :
                        r.id = v.record_id /\ r.created_at = v.created_at)
             /\ v.parent_version_id # NULL =>
                    \E p \in Range(record_versions) :
                        /\ p.id = v.parent_version_id
                        /\ p.record_id = v.record_id
                        /\ p.id < v.id)

\* two calls read the same current version: their two versions have one
\* parent
C11_Witness ==
    \E v \in Range(record_versions) : \E w \in Range(record_versions) :
        /\ v.id # w.id
        /\ v.parent_version_id # NULL
        /\ v.parent_version_id = w.parent_version_id

\* the version of a record that was committed last: its last row
LastCommitted(record_id) ==
    CHOOSE v \in VersionRowsOf(record_id) :
        \A w \in VersionRowsOf(record_id) : w.id <= v.id

\* C12: when calls of create_new_version on one record overlap, every call
\* that found the record returns its version in the end (a call waits only
\* for a writer that can go on to its commit), every call that returns has
\* its version persisted and listed from then on, with the current version
\* it read as parent, and the record points at the version of the writer
\* that committed last
C12_LastWriterWins ==
    /\ \A s \in Sessions :
           (pc[s] = "cnv_select_max") ~>
               (/\ pc[s] = "idle"
                /\ result[s].outcome = "returned"
                /\ result[s].fn = "create_new_version")
    /\ [](\A s \in Sessions :
             (result[s].outcome = "returned" /\ result[s].fn = "create_new_version") =>
                 /\ result[s].value \in
                        Range(list_versions_for_record(result[s].value.record_id))
                 /\ \E p \in VersionRowsOf(result[s].value.record_id) :
                        p.id = result[s].value.parent_version_id /\ p.id < result[s].value.id)
    /\ [](\A r \in Range(records) :
             /\ r.current_version_id = LastCommitted(r.id).id
             /\ Len(list_versions_for_record(r.id)) = Cardinality(VersionRowsOf(r.id)))
    /\ [](lock # NULL =>
             /\ pc[lock] \in {"crv_insert_version", "crv_commit",
                              "cnv_update_record", "cnv_commit"}
             /\ CanWrite(lock))
    /\ [][ \A s \in Sessions :
             (pc[s] = "cnv_commit" /\ result'[s].outcome = "returned") =>
                 \A f \in {frame[s]} :
                     /\ get_record_by_id(f.record_id)'.current_version_id = f.version_id
                     /\ result'[s].value.parent_version_id = f.parent_version_id
         ]_vars

\* both calls read the same current version and both have returned: the
\* record points at the later one and lists both
C12_Witness ==
    /\ result[1].outcome = "returned" /\ result[1].fn = "create_new_version"
    /\ result[2].outcome = "returned" /\ result[2].fn = "create_new_version"
    /\ result[1].value.record_id = result[2].value.record_id
    /\ result[1].value.parent_version_id = result[2].value.parent_version_id
    /\ result[1].value.id < result[2].value.id
    /\ get_current_version(result[2].value.record_id) = result[2].value
    /\ Len(list_versions_for_record(result[1].value.record_id)) = 3

CommentIdsOf(rows) == { c.id : c \in Range(rows) }

AllListedComments ==
    UNION { Range(list_comments_for_record(c.record_id)) : c \in Range(comments) }

\* C13: a committed update_comment changes the text and the timestamp of the
\* comment with the given id, keeps its id, record, version, author id,
\* author name and role, and leaves every other comment as it was; a
\* committed delete_comment removes the comment with the given id and leaves
\* every other comment present and unchanged; the listings show exactly the
\* comments of the table
C13_CommentLifecycle ==
    /\ [](AllListedComments = Range(comments))
    /\ [][ \A s \in SingleWriter :
             /\ (pc[s] = "upd_commit" /\ pc'[s] = "idle" /\ comments' # comments) =>
                  \A f \in {frame[s]} :
                      /\ CommentIdsOf(comments') = CommentIdsOf(comments)
                      /\ Len(comments') = Len(comments)
                      /\ \A c \in Range(comments) :
                            IF c.id = f.comment_id
                            THEN \E d \in Range(comments') :
                                    /\ d.id = c.id
                                    /\ d.record_id = c.record_id
                                    /\ d.version_id = c.version_id
                                    /\ d.author_id = c.author_id
                                    /\ d.author_name = c.author_name
                                    /\ d.role = c.role
                                    /\ d.text = f.new_text
                                    /\ d.created_at = f.now
                            ELSE c \in Range(comments')
             /\ (pc[s] = "upd_commit" /\ pc'[s] = "idle"
                     /\ result'[s].outcome = "returned") =>
                  \A c \in Range(comments') :
                      c.id = frame[s].comment_id => c.text = frame[s].new_text
             /\ (pc[s] = "del_commit" /\ pc'[s] = "idle"
                     /\ result'[s].outcome = "returned") =>
                  \A f \in {frame[s]} :
                      /\ f.comment_id \notin CommentIdsOf(comments')
                      /\ Range(comments') =
                            { c \in Range(comments) : c.id # f.comment_id }
                      /\ Len(comments') = Cardinality(Range(comments'))
         ]_vars

\* a delete is about to commit on a comment of the table while another
\* comment, updated before, is in the table too
C13_Witness ==
    \E s \in SingleWriter :
        /\ pc[s] = "del_commit"
        /\ frame[s].comment_id \in CommentIdsOf(comments)
        /\ frame[s].comment_id \notin CommentIdsOf(View(s).comments)
        /\ \E c \in Range(comments) :
              /\ c.id # frame[s].comment_id
              /\ c.text = "edited"
              /\ c.created_at.tz = TORONTO_TZ

\* the list a document holds for a key: empty for a document that is None,
\* for a key that is absent and for a value that is None
TrackedList(meta, key) ==
    IF DOMAIN meta = {"None"} THEN <<>>
    ELSE IF key \notin DOMAIN meta THEN <<>>
    ELSE IF meta[key] = NoneValue THEN <<>>
    ELSE meta[key]

TrackedKeys == <<"framework_tags", "capability_groups">>

DiffersAt(old_meta, new_meta, i) ==
    TrackedList(old_meta, TrackedKeys[i]) # TrackedList(new_meta, TrackedKeys[i])

DiffReturned(s) == pc[s] = "idle" /\ result[s].outcome = "returned"

\* C14: for every pair of metadata documents diff_ai_metadata returns one
\* triple (field path, old list, new list) for each tracked field whose
\* lists differ and nothing else, framework_tags before capability_groups;
\* a document against itself gives the empty list, and ['A'] against
\* ['A','B'] for framework_tags gives exactly that one entry
C14_DiffExact ==
    \A s \in SingleWriter :
        DiffReturned(s) =>
            LET old_meta == frame[s].old_meta
                new_meta == frame[s].new_meta
                r == result[s].value
                changed == { i \in 1..2 : DiffersAt(old_meta, new_meta, i) }
            IN  /\ Len(r) = Cardinality(changed)
                /\ \A i \in changed :
                      \E j \in 1..Len(r) :
                          r[j] = << "ai_metadata." \o TrackedKeys[i],
                                    TrackedList(old_meta, TrackedKeys[i]),
                                    TrackedList(new_meta, TrackedKeys[i]) >>
                /\ changed = {1, 2} =>
                      /\ r[1][1] = "ai_metadata.framework_tags"
                      /\ r[2][1] = "ai_metadata.capability_groups"
                /\ old_meta = new_meta => r = <<>>
                /\ (/\ old_meta = [framework_tags |-> <<"A">>]
                    /\ new_meta = [framework_tags |-> <<"A", "B">>]) =>
                      r = << <<"ai_metadata.framework_tags", <<"A">>, <<"A", "B">> >> >>

\* the function has returned both entries for two documents that differ in
\* both lists
C14_Witness ==
    \E s \in SingleWriter :
        /\ DiffReturned(s)
        /\ frame[s].old_meta = [framework_tags |-> <<"A">>, capability_groups |-> NoneValue]
        /\ frame[s].new_meta = [framework_tags |-> <<"A", "B">>, capability_groups |-> <<"B", "A">>]
        /\ Len(result[s].value) = 2

\* C15: every timestamp in the store (a record's and a version's
\* created_at, a comment's created_at, an override event's overridden_at)
\* is a Toronto time with its offset
C15_AllTimestampsToronto ==
    /\ \A r \in Range(records) : r.created_at.tz = TORONTO_TZ
    /\ \A v \in Range(record_versions) : v.created_at.tz = TORONTO_TZ
    /\ \A c \in Range(comments) : c.created_at.tz = TORONTO_TZ
    /\ \A e \in Range(override_events) : e.overridden_at.tz = TORONTO_TZ

\* C16: when a run of the page invokes update_comment or delete_comment on
\* a comment of the table, the run's user is the comment's author or an
\* admin
C16_OnlyAuthorOrAdmin ==
    \A s \in SingleWriter :
        (/\ pc[s] \in {"upd_update", "del_delete"}
         /\ script[s].flow \in {"save_comment", "delete_comment"}) =>
            \A c \in Range(comments) :
                c.id = frame[s].comment_id => can_manage(script[s].user, c)

\* C17: a log_override_events call that commits appends to the ledger one
\* event per entry of its list, in the list's order, each with the call's
\* record id and version id, the entry's path and values, the actor's id and
\* name and the call's one timestamp; the ledger changes at no other step of
\* the call (all entries together or none); a call with an empty list
\* returns without error and writes nothing
C17_OneEventPerEntry ==
    [][ \A s \in SingleWriter :
          /\ (frame[s].fn = "log_override_events"
                  /\ override_events' # override_events) =>
               \A f \in {frame[s]}, n \in {Len(override_events)} :
                   /\ pc[s] = "log_commit"
                   /\ result'[s].outcome = "returned"
                   /\ Len(override_events') = n + Len(f.overrides)
                   /\ SubSeq(override_events', 1, n) = override_events
                   /\ \A k \in 1..Len(f.overrides) :
                         \A e \in {_row_to_override_event(override_events'[n + k])} :
                             /\ e.record_id = f.record_id
                             /\ e.version_id = f.version_id
                             /\ e.field_path = f.overrides[k][1]
                             /\ e.original_value = f.overrides[k][2]
                             /\ e.new_value = f.overrides[k][3]
                             /\ e.overridden_by = f.user.id
                             /\ e.overridden_by_name = f.user.display_name
                             /\ e.overridden_at = f.now
          /\ (pc[s] = "log_commit" /\ result'[s].outcome = "returned") =>
               Len(override_events') = Len(override_events) + Len(frame[s].overrides)
          /\ (pc[s] = "idle" /\ pc'[s] = "idle") =>
               /\ result'[s].outcome = "returned"
               /\ result'[s].fn = "log_override_events"
               /\ UNCHANGED db
      ]_vars

\* a call with two entries has returned: the ledger ends with two events of
\* one version, one per path, with one timestamp
C17_Witness ==
    \E s \in SingleWriter :
        /\ result[s].outcome = "returned"
        /\ result[s].fn = "log_override_events"
        /\ Len(override_events) >= 2
        /\ \A e \in {override_events[Len(override_events) - 1]},
              g \in {override_events[Len(override_events)]} :
              /\ e.field_path = "ai_metadata.framework_tags"
              /\ g.field_path = "ai_metadata.capability_groups"
              /\ e.version_id = g.version_id
              /\ e.overridden_at = g.overridden_at

\* C18: when create_record_with_initial_version commits, the record it
\* returns carries the requested status and a current_version_id, the stored
\* record is that record, and the version with that id is the record's only
\* version, numbered 1, of type 'draft', with no parent; every version
\* numbered 1 is a draft with no parent
C18_InitialVersion ==
    /\ [](\A v \in Range(record_versions) :
             v.version_number = 1 =>
                 v.version_type = "draft" /\ v.parent_version_id = NULL)
    /\ [][ \A s \in SingleWriter :
             (pc[s] = "crv_commit" /\ result'[s].outcome = "returned") =>
                 \A f \in {frame[s]}, rec \in {result'[s].value} :
                     /\ rec.status = f.status
                     /\ rec.current_version_id # NULL
                     /\ \E r \in Range(records') :
                           /\ r.id = rec.id
                           /\ r.status = f.status
                           /\ r.current_version_id = rec.current_version_id
                     /\ \E v \in Range(record_versions') :
                           /\ v.id = rec.current_version_id
                           /\ v.record_id = rec.id
                           /\ v.version_number = 1
                           /\ v.version_type = "draft"
                           /\ v.parent_version_id = NULL
                           /\ \A w \in Range(record_versions') :
                                 w.record_id = rec.id => w = v
         ]_vars

\* a record requested as 'submitted' has been returned and its current
\* version is the stored draft
C18_Witness ==
    \E s \in SingleWriter :
        /\ result[s].outcome = "returned"
        /\ result[s].fn = "create_record_with_initial_version"
        /\ result[s].value.status = "submitted"
        /\ \E v \in Range(record_versions) :
              /\ v.id = result[s].value.current_version_id
              /\ v.version_type = "draft"

\* C19: an override event that is in the ledger is in it after every step,
\* with every field as it was, and list_overrides_for_record of its record
\* returns it
C19_LedgerAppendOnly ==
    /\ [](\A e \in Range(override_events) :
             _row_to_override_event(e) \in Range(list_overrides_for_record(e.record_id)))
    /\ [][ /\ Len(override_events') >= Len(override_events)
           /\ \A i \in 1..Len(override_events) :
                 override_events'[i] = override_events[i]
         ]_vars

\* the ledger holds events of two calls for one record, and the later call
\* has returned
C19_Witness ==
    /\ \E s \in SingleWriter :
          result[s].outcome = "returned" /\ result[s].fn = "log_override_events"
    /\ \E e \in Range(override_events), g \in Range(override_events) :
          /\ e.record_id = g.record_id
          /\ e.field_path = g.field_path
          /\ e.overridden_at.t < g.overridden_at.t

\* C20: list_comments_for_record returns a record's comments in ascending
\* order of the instant each was last written (added, or updated by
\* update_comment)
C20_AscendingByTimeWritten ==
    \A c \in Range(comments) :
        LET listed == list_comments_for_record(c.record_id)
        IN  \A i \in 1..Len(listed) : \A j \in 1..Len(listed) :
                i < j => listed[i].created_at.t <= listed[j].created_at.t

\* b holds the members of a, each as often, in another order
Reordered(a, b) ==
    /\ a # b
    /\ Len(a) = Len(b)
    /\ \E f \in [1..Len(a) -> 1..Len(a)] :
          /\ \A i \in 1..Len(a) : \A j \in 1..Len(a) : f[i] = f[j] => i = j
          /\ \A i \in 1..Len(a) : b[i] = a[f[i]]

ReorderedTracked(old_content, new_content) ==
    { k \in DOMAIN TrackedPath :
        Reordered(old_content.ai_metadata[k], new_content.ai_metadata[k]) }

\* C21: a save whose form holds a tracked list with the current version's
\* tags in another order has that field in its diff, with the old and the
\* new list, and is an 'override' when the user is an admin; when an
\* admin's save has ended, a version that reorders a tracked list of its
\* parent is an 'override' with an event for that field
C21_ReorderIsChange ==
    [][ \A s \in SingleWriter :
          /\ (pc[s] = "idle" /\ script'[s].flow = "save") =>
               \A run \in {script'[s]}, f \in {frame'[s]} :
               \A current \in {VersionById(run.current_version_id)} :
                   \A k \in ReorderedTracked(current.content, f.content) :
                       /\ \E i \in 1..Len(run.overrides) :
                             run.overrides[i] =
                                 << TrackedPath[k], current.content.ai_metadata[k],
                                    f.content.ai_metadata[k] >>
                       /\ is_admin(run.user) => f.version_type = "override"
          /\ (SaveEnds(s) /\ is_admin(script[s].user)) =>
               \A v \in {SavedVersion'} :
               \A previous \in {VersionById(v.parent_version_id)'} :
                   \A k \in ReorderedTracked(previous.content, v.content) :
                       /\ v.version_type = "override"
                       /\ \E e \in EventsOf(v.id)' :
                             /\ e.field_path = TrackedPath[k]
                             /\ json_loads_value(e.original_value) =
                                    previous.content.ai_metadata[k]
                             /\ json_loads_value(e.new_value) = v.content.ai_metadata[k]
      ]_vars

\* an admin's override whose only change is the order of the framework
\* tags, with its one event
C21_Witness ==
    \E v \in Range(record_versions) :
        /\ v.version_type = "override"
        /\ v.parent_version_id # NULL
        /\ ReorderedTracked(VersionById(v.parent_version_id).content,
                            VersionById(v.id).content) = {"framework_tags"}
        /\ ChangedTracked(VersionById(v.parent_version_id).content,
                          VersionById(v.id).content) = {"framework_tags"}
        /\ Cardinality(EventsOf(v.id)) = 1

\* the document with both tracked lists written out
FullDoc(meta) ==
    [framework_tags |-> TrackedList(meta, "framework_tags"),
     capability_groups |-> TrackedList(meta, "capability_groups")]

\* the key holds no tag in the document: the document is None, the key is
\* absent, its value is None or the empty list
NoTags(meta, key) == TrackedList(meta, key) = <<>>

\* C22: diff_ai_metadata returns a list for every pair of documents,
\* whichever of them is None, lacks a key or holds None or an empty list
\* for it; the result is the one for the two documents with None replaced
\* by the empty document and a missing or None list by the empty list; and a
\* field with no tags in both documents has no entry
C22_DiffTotal ==
    /\ [](\A s \in SingleWriter :
             DiffReturned(s) =>
                 \A old_meta \in {frame[s].old_meta}, new_meta \in {frame[s].new_meta},
                    r \in {result[s].value} :
                     /\ Len(r) \in 0..2
                     /\ r = diff_ai_metadata(FullDoc(old_meta), FullDoc(new_meta))
                     /\ \A i \in 1..2 :
                           (NoTags(old_meta, TrackedKeys[i]) /\ NoTags(new_meta, TrackedKeys[i]))
                               => \A j \in 1..Len(r) :
                                     r[j][1] # "ai_metadata." \o TrackedKeys[i]
                     /\ \A j \in 1..Len(r) : r[j][2] # NoneValue /\ r[j][3] # NoneValue)
    /\ [][ \A s \in SingleWriter :
             pc[s] = "diff_ai_metadata" =>
                 pc'[s] = "idle" /\ result'[s].outcome = "returned" ]_vars

\* the function has returned the empty list for a None document against a
\* document whose only key holds None
C22_Witness ==
    \E s \in SingleWriter :
        /\ DiffReturned(s)
        /\ DOMAIN frame[s].old_meta = {"None"}
        /\ DOMAIN frame[s].new_meta = {"framework_tags"}
        /\ frame[s].new_meta.framework_tags = NoneValue
        /\ result[s].value = <<>>

\* C23: no step of a create_new_version call changes the override ledger
\* or the comments, in the committed tables or in the call's transaction,
\* whatever version_type the caller gave; the version the call commits and
\* returns has that version_type
C23_NewVersionWritesNoLedger ==
    [][ \A s \in SingleWriter :
          (pc[s] \in CnvSteps /\ frame[s].fn = "create_new_version") =>
              \A f \in {frame[s]} :
                  /\ override_events' = override_events
                  /\ comments' = comments
                  /\ View(s)'.override_events = override_events
                  /\ View(s)'.comments = comments
                  /\ (pc[s] = "cnv_commit" /\ result'[s].outcome = "returned") =>
                        /\ result'[s].value.version_type = f.version_type
                        /\ \E v \in Range(record_versions') :
                              /\ v.id = result'[s].value.id
                              /\ v.version_type = f.version_type
                              /\ v \notin Range(record_versions)
      ]_vars

\* a version of type 'override' has been returned with no event for it, the
\* store holding a comment or an event of an earlier call
C23_Witness ==
    \E s \in SingleWriter :
        /\ result[s].outcome = "returned"
        /\ result[s].fn = "create_new_version"
        /\ result[s].value.version_type = "override"
        /\ EventsOf(result[s].value.id) = {}
        /\ comments # <<>> \/ override_events # <<>>

EditorFlows ==
    {"create", "save", "log", "post_comment", "save_comment", "delete_comment"}

\* the user of the run that is under way
ActingUser(s) ==
    IF script[s].flow \in {"save", "log", "save_comment", "delete_comment"}
    THEN script[s].user ELSE frame[s].user

ViewerIds == { u.id : u \in { w \in MockUsers : is_viewer(w) } }

C25_UniqueVersionNumbers ==
    \A v \in Range(record_versions), w \in Range(record_versions) :
        (v.record_id = w.record_id /\ v.version_number = w.version_number) => v.id = w.id

\* C26: whenever no run is under way, every version of type 'override' that
\* the tables hold has at least one override event for it, also after a
\* save that was interrupted between create_new_version and
\* log_override_events
C26_OverrideHasEvent ==
    (\A s \in SingleWriter : pc[s] = "idle") =>
        \A v \in Range(record_versions) :
            v.version_type = "override" => EventsOf(v.id) # {}

\* C27: every override event in the store names a version that exists, is
\* a version of the event's record, has type 'override' and was created by
\* the user the event names as its actor, and that user is an admin
C27_EventNamesAdminOverride ==
    \A e \in Range(override_events) :
        /\ \E v \in Range(record_versions) : v.id = e.version_id
        /\ \A v \in Range(record_versions) :
              v.id = e.version_id =>
                  /\ v.record_id = e.record_id
                  /\ v.version_type = "override"
                  /\ v.created_by = e.overridden_by
                  /\ v.created_by_name = e.overridden_by_name
        /\ RoleOfUserId(e.overridden_by) = ADMIN

\* an event of an admin's override of the second version of a record
C27_Witness ==
    \E e \in Range(override_events) :
        /\ e.record_id # e.version_id
        /\ VersionById(e.version_id).version_type = "override"
        /\ VersionById(e.version_id).version_number = 2
        /\ RoleOfUserId(e.overridden_by) = ADMIN

\* the tracked key an event's field path names
KeyOfPath(path) == CHOOSE k \in DOMAIN TrackedPath : TrackedPath[k] = path

\* C28: every override event carries as original_value the list its field
\* has in the parent of the event's version, and as new_value the list the
\* field has in the event's version, also when another session saved a
\* version of the record between the editor's read and its call
C28_EventValuesMatchParent ==
    \A e \in Range(override_events) :
        \A v \in {VersionById(e.version_id)} :
        \A previous \in {VersionById(v.parent_version_id)} :
            /\ json_loads_value(e.original_value) =
                   previous.content.ai_metadata[KeyOfPath(e.field_path)]
            /\ json_loads_value(e.new_value) =
                   v.content.ai_metadata[KeyOfPath(e.field_path)]

\* C29: with one create_new_version call at a time, every version numbered
\* n > 1 has as parent the version numbered n - 1 of the same record, and
\* no two versions have the same parent
C29_LinearLineage ==
    /\ \A v \in Range(record_versions) :
          v.version_number > 1 =>
              \E p \in VersionRowsOf(v.record_id) :
                  /\ p.id = v.parent_version_id
                  /\ p.version_number = v.version_number - 1
    /\ \A v \in Range(record_versions), w \in Range(record_versions) :
          (v.parent_version_id # NULL /\ v.parent_version_id = w.parent_version_id)
              => v.id = w.id

\* a chain of three versions of one record
C29_Witness ==
    \E v \in Range(record_versions), w \in Range(record_versions) :
        /\ v.version_number = 3
        /\ w.version_number = 2
        /\ v.parent_version_id = w.id
        /\ w.parent_version_id # NULL
        /\ v.record_id = w.record_id

\* C30: in every committed state, also after interleaved create_new_version
\* calls on one record, the version the record's current_version_id names
\* has the greatest version_number of the record's versions
C30_CurrentIsMaxNumber ==
    \A r \in Range(records) :
        \A v \in VersionRowsOf(r.id) :
            v.id = r.current_version_id =>
                \A w \in VersionRowsOf(r.id) : w.version_number <= v.version_number

\* the columns of a records row that no statement sets after the INSERT
SameIdentity(old_row, new_row) ==
    /\ new_row.id = old_row.id
    /\ new_row.record_type = old_row.record_type
    /\ new_row.created_by = old_row.created_by
    /\ new_row.created_at = old_row.created_at

\* C31: no step removes a records row or changes a row's id, record_type,
\* created_by or created_at; the UPDATE of create_new_version leaves every
\* row but the targeted one as it was, and its commit changes no committed
\* row of another record; in every state list_records_for_user returns to a
\* plain user each record that user created, so such a record stays listed
C31_OnlyPointerTitleStatus ==
    /\ [](\A u \in MockUsers :
             is_user(u) =>
                 \A r \in Range(records) : r.created_by = u.id => r.id \in ListedIds(u))
    /\ [][ /\ Len(records') >= Len(records)
           /\ \A i \in 1..Len(records) : SameIdentity(records[i], records'[i])
           /\ \A s \in Sessions :
                 (pc[s] = "cnv_update_record" /\ pc'[s] = "cnv_commit") =>
                     /\ Len(txn'[s].records) = Len(View(s).records)
                     /\ \A i \in 1..Len(View(s).records) :
                           /\ SameIdentity(View(s).records[i], txn'[s].records[i])
                           /\ View(s).records[i].id # frame[s].record_id
                                 => txn'[s].records[i] = View(s).records[i]
           /\ \A s \in Sessions :
                 (pc[s] = "cnv_commit" /\ pc'[s] = "idle") =>
                     \A i \in 1..Len(records) :
                         records[i].id # frame[s].record_id => records'[i] = records[i]
         ]_vars

\* two records, the first created by a plain user; a create_new_version
\* call by another author has moved its pointer, title and status
C31_Witness ==
    /\ Len(records) = 2
    /\ \E r \in Range(records), v \in Range(record_versions) :
          /\ r.created_by = "user-1"
          /\ v.id = r.current_version_id
          /\ v.version_number = 2
          /\ v.created_by # r.created_by
          /\ r.title = "Title B"
          /\ r.status = "submitted"

\* the statements of add_comment, update_comment and delete_comment
CommentSteps == {"add_insert", "add_commit", "upd_update", "upd_commit",
                 "del_delete", "del_commit"}

\* C32: no step of add_comment, update_comment or delete_comment changes the
\* records, record_versions or override_events table, committed or as the
\* call's connection sees them; an update_comment or delete_comment whose id
\* matches no comment leaves the comments table as it was too, returns None,
\* and ends in an error only if the database itself fails
C32_CommentsTouchOnlyComments ==
    [][ \A s \in SingleWriter :
          /\ pc[s] \in CommentSteps =>
                /\ records' = records
                /\ record_versions' = record_versions
                /\ override_events' = override_events
                /\ \A v \in {View(s)'} :
                      /\ v.records = records
                      /\ v.record_versions = record_versions
                      /\ v.override_events = override_events
          /\ (/\ pc[s] \in {"upd_update", "upd_commit", "del_delete", "del_commit"}
              /\ frame[s].comment_id \notin CommentIdsOf(comments)) =>
                /\ comments' = comments
                /\ \A v \in {View(s)'} : v.comments = comments
                /\ pc'[s] = "idle" =>
                      /\ result'[s].outcome \in {"returned", "raised"}
                      /\ result'[s].outcome = "raised" => result'[s].value = "Exception"
                      /\ result'[s].outcome = "returned" => result'[s].value = None
      ]_vars

\* an update_comment whose id matches no comment has run its UPDATE and is
\* about to commit, with a record, its version and a comment in the tables
C32_Witness ==
    \E s \in SingleWriter :
        /\ pc[s] = "upd_commit"
        /\ frame[s].comment_id \notin CommentIdsOf(comments)
        /\ records # <<>>
        /\ record_versions # <<>>
        /\ comments # <<>>

\* C33: every version of a record is authored by the record's creator or by
\* an admin; and whenever the editor starts create_new_version for a plain
\* user, the targeted record is one that user created and one that
\* list_records_for_user returns to that user
C33_PlainUserEditsOwnRecords ==
    /\ [](\A r \in Range(records) :
             \A v \in VersionRowsOf(r.id) :
                 \/ v.created_by = r.created_by
                 \/ RoleOfUserId(v.created_by) = ADMIN)
    /\ [][ \A s \in SingleWriter :
             (pc[s] = "idle" /\ pc'[s] = "cnv_select_record") =>
                 \A f \in {frame'[s]} :
                     is_user(f.user) =>
                         /\ f.record_id \in ListedIds(f.user)
                         /\ get_record_by_id(f.record_id).created_by = f.user.id
         ]_vars

\* a record of the plain user with a version by that user and a later one
\* by an admin, next to a record that another user created
C33_Witness ==
    \E r \in Range(records), q \in Range(records) :
        /\ RoleOfUserId(r.created_by) = USER
        /\ q.created_by # r.created_by
        /\ \E v \in VersionRowsOf(r.id), w \in VersionRowsOf(r.id) :
              /\ v.version_number = 2
              /\ v.created_by = r.created_by
              /\ w.version_number = 3
              /\ RoleOfUserId(w.created_by) = ADMIN

=============================================================================
